---- MODULE Spec2Model ----
(***************************************************************************)
(* A model of mtg_art_picker.py: the fetch / cache orchestration of the    *)
(* MainWindow (metadata fetches with in-flight de-duplication and the      *)
(* auto-relax fallback, generation tokens for image results, cache         *)
(* prefetch, batch download), the Project disk cache and the RateLimiter.  *)
(*                                                                         *)
(* Handlers of the consumer (GUI) thread are operators from a state record *)
(* to a state record, composed the way the Python methods call each other; *)
(* an action applies one whole handler (or one step of a pool job) and     *)
(* commits the record to the variables.                                    *)
(***************************************************************************)
EXTENDS Integers, Sequences, FiniteSets, TLC

VARIABLES
    \* ---- Project / MainWindow fields (owned by the consumer thread)
    current_index,            \* project.current_index (0-based)
    filters,                  \* project.filters
    active_printing_index,    \* project.active_printing_index (partial map)
    meta_by_key,              \* MainWindow.meta_by_key (partial map)
    _fetching_meta,           \* MainWindow._fetching_meta
    _all_prints_override,     \* MainWindow._all_prints_override
    _auto_relaxed_cards,      \* MainWindow._auto_relaxed_cards
    thumb_widgets,            \* MainWindow.thumb_widgets
    _thumb_context,           \* MainWindow._thumb_context
    _thumb_token,             \* MainWindow._thumb_token
    _big_token,               \* MainWindow._big_token
    big_image,                \* what the big preview label shows
    \* ---- thread pools: jobs in submission order, with their position
    _meta_executor,
    _image_executor,
    _preload_executor,
    \* ---- files of the project folder
    cache_meta,               \* cache/meta: file name -> content
    cache_images,             \* cache/small and cache/normal: path -> bytes
    \* ---- the environment: the lists a query may answer with, the faults
    \* that may happen, and the number of user events so far
    catalog,
    faults,
    events,
    \* ---- batch download
    selections,               \* project.selections, its items in the dict's order
    undo_stack,               \* MainWindow.undo_stack
    _downloading,             \* MainWindow._downloading
    _download_cancel,         \* MainWindow._download_cancel (Event)
    _download_executor,       \* the download pool's job(s)
    dl_signals,               \* queued DownloadSignals, in emission order
    out_dir,                  \* DOWNLOADED IMAGES HERE: file name -> content
    dl_log,                   \* observation: what the running batch did
    \* ---- RateLimiter
    _next_allowed,            \* RateLimiter._next_allowed
    _lock,                    \* RateLimiter._lock: the holder, or 0
    clock,                    \* time.time(), in ticks
    rl_threads,               \* position of each caller of wait()
    rl_returns,               \* observation: the times wait() returned at
    \* ---- observation of the last step taken
    last

vars == << current_index, filters, active_printing_index, meta_by_key,
           _fetching_meta, _all_prints_override, _auto_relaxed_cards,
           thumb_widgets, _thumb_context, _thumb_token, _big_token, big_image,
           _meta_executor, _image_executor, _preload_executor,
           cache_meta, cache_images, catalog, faults, events,
           selections, undo_stack, _downloading, _download_cancel, _download_executor,
           dl_signals, out_dir, dl_log,
           _next_allowed, _lock, clock, rl_threads, rl_returns, last >>

uiVars == << current_index, filters, active_printing_index, meta_by_key,
             _fetching_meta, _all_prints_override, _auto_relaxed_cards,
             thumb_widgets, _thumb_context, _thumb_token, _big_token, big_image,
             _meta_executor, _image_executor, _preload_executor >>
diskVars == << cache_meta, cache_images >>
envVars == << catalog, faults >>
dlVars == << selections, undo_stack, _downloading, _download_cancel, _download_executor,
             dl_signals, out_dir, dl_log >>
rlVars == << _next_allowed, _lock, clock, rl_threads, rl_returns >>

-----------------------------------------------------------------------------
(* Program constants *)

META_WORKERS == 2
IMAGE_WORKERS == 4
PRELOAD_WORKERS == 2
DOWNLOAD_WORKERS == 1
PRELOAD_NEXT_THUMBS == 30
PRELOAD_NEXT_BIG == 2
THUMB_LOAD_BUFFER == 10
\* `0 < len(prints) < 5` in ensure_meta.worker
AUTO_RELAX_BELOW == 5
\* safe_filename keeps s[:180]
SAFE_FILENAME_MAX == 180

-----------------------------------------------------------------------------
(* Small helpers *)

Min(a, b) == IF a < b THEN a ELSE b
Max(a, b) == IF a > b THEN a ELSE b
Range(f) == {f[i] : i \in DOMAIN f}

\* d with d[k] = v (a dict assignment)
Put(d, k, v) == (k :> v) @@ d

\* seq without its i-th element
RemoveAt(seq, i) == [j \in 1..(Len(seq) - 1) |-> IF j < i THEN seq[j] ELSE seq[j + 1]]

-----------------------------------------------------------------------------
(* Data: cards, printings, filters *)

\* A card name is a sequence of characters.
Deck == << <<"A">>, <<"B">> >>
Cards == Range(Deck)

\* Printing (dataclass), with the fields the orchestration reads; set_name,
\* released_at and scryfall_uri are only displayed.  n identifies the printing.
Printing(n) ==
    [set_code |-> "SET", collector_number |-> n,
     image_small |-> "small", image_normal |-> "normal",
     image_png |-> "png", image_large |-> "large"]

PrintList(n) == [i \in 1..n |-> Printing(i)]

\* DEFAULT_FILTERS, reduced to two of its ten keys: the dict is never empty.
DEFAULT_FILTERS == [border |-> "any", is_full |-> FALSE]
FULL_FILTERS == [border |-> "any", is_full |-> TRUE]
FilterConfigs == {DEFAULT_FILTERS, FULL_FILTERS}
\* the empty dict {} handed to fetch_all_printings by the fallback and by
\* the all-prints override
NO_FILTERS == <<>>

\* filters_signature: sha256 of the sorted JSON dump, first 10 hex digits.
\* The digest is a fixed injective table on the configurations of the model;
\* it is never the string "ALL".
filters_signature(f) ==
    CASE f = DEFAULT_FILTERS -> "5d1f0c3a77"
      [] f = FULL_FILTERS -> "c41e9b02d8"
      [] OTHER -> "44136fa355"

Sigs == {filters_signature(f) : f \in FilterConfigs} \cup {"ALL"}

-----------------------------------------------------------------------------
(* Project: cache file names and the disk cache *)

Forbidden == {"<", ">", ":", "\"", "/", "\\", "|", "?", "*"}
Whitespace == {" ", "\t"}

\* re.sub(r'[<>:"/\\|?*\x00-\x1F]', "_", s)
ReplaceForbidden(s) == [i \in 1..Len(s) |-> IF s[i] \in Forbidden THEN "_" ELSE s[i]]

\* re.sub(r"\s+", " ", s): a run of whitespace becomes one blank
RECURSIVE CollapseWs(_)
CollapseWs(s) ==
    IF s = <<>> THEN <<>>
    ELSE IF Head(s) \in Whitespace
         THEN IF Len(s) > 1 /\ s[2] \in Whitespace
              THEN CollapseWs(Tail(s))
              ELSE <<" ">> \o CollapseWs(Tail(s))
         ELSE <<Head(s)>> \o CollapseWs(Tail(s))

\* str.strip()
RECURSIVE LStrip(_)
LStrip(s) == IF s # <<>> /\ Head(s) \in Whitespace THEN LStrip(Tail(s)) ELSE s
RECURSIVE RStrip(_)
RStrip(s) ==
    IF s # <<>> /\ s[Len(s)] \in Whitespace THEN RStrip(SubSeq(s, 1, Len(s) - 1)) ELSE s

safe_filename(s) ==
    LET t == RStrip(LStrip(CollapseWs(ReplaceForbidden(s))))
    IN  SubSeq(t, 1, Min(Len(t), SAFE_FILENAME_MAX))

\* hashlib.sha256(card.encode("utf-8")).hexdigest()[:10], tabulated for the
\* card names of the model; a digest is one token of a file name.
sha10(card) ==
    CASE card = <<"A">> -> "559aead082"
      [] card = <<"B">> -> "df7e70e502"
      [] card = <<"a", "/", "b">> -> "c14cddc033"
      [] card = <<"a", "_", "b">> -> "648fa9b31b"

\* cache_key: f"{safe}_{h}"
cache_key_without_digest(card) == safe_filename(card) \o <<"_">>

cache_key(card) == safe_filename(card) \o <<"_", sha10(card)>>

\* Project.meta_cache_path: cache_meta / f"{cache_key(card)}__{sig}.json".
\* A path is the sequence of the characters and tokens of its name, after
\* the name of its directory.
meta_cache_path(card, sig) ==
    <<"meta">> \o cache_key(card) \o <<"_", "_", sig, ".json">>

\* Project.image_cache_path: (cache_small if kind == "small" else cache_normal)
\*   / f"{cache_key(card)}__{sig}__{idx}.img"
image_cache_path(kind, card, sig, idx) ==
    << (IF kind = "small" THEN "small" ELSE "normal") >>
        \o cache_key(card) \o <<"_", "_", sig, "_", "_", idx, ".img">>

\* The text of a metadata file: json.dumps of the list of the printings'
\* __dict__ (every field is a str or None, which JSON carries unchanged), or
\* a text that json.loads rejects (an empty or cut-off file).
JsonDump(printings) == [json |-> TRUE, rows |-> printings]
BadJson == [json |-> FALSE, rows |-> <<>>]

\* Project.get_cached_meta on the files `files`: an absent file is None, a
\* file that does not parse raises.
get_cached_meta(files, card, sig) ==
    LET p == meta_cache_path(card, sig)
    IN  IF p \notin DOMAIN files
        THEN [found |-> FALSE, raised |-> FALSE, value |-> <<>>]
        ELSE IF files[p].json
             THEN [found |-> TRUE, raised |-> FALSE, value |-> files[p].rows]
             ELSE [found |-> FALSE, raised |-> TRUE, value |-> <<>>]

\* Project.set_cached_meta: write_text; a failing write is logged and
\* swallowed (ok = FALSE: nothing of the file is changed).
set_cached_meta(files, card, sig, printings, ok) ==
    IF ok THEN Put(files, meta_cache_path(card, sig), JsonDump(printings)) ELSE files

\* Project.get_cached_image_bytes
get_cached_image_bytes(files, kind, card, sig, idx) ==
    LET p == image_cache_path(kind, card, sig, idx)
    IN  IF p \in DOMAIN files
        THEN [found |-> TRUE, value |-> files[p]]
        ELSE [found |-> FALSE, value |-> <<>>]

\* Project.set_cached_image_bytes
set_cached_image_bytes(files, kind, card, sig, idx, data, ok) ==
    IF ok THEN Put(files, image_cache_path(kind, card, sig, idx), data) ELSE files

\* Image bytes are sequences of numbers; QPixmap.loadFromData accepts the
\* ones that start with the image magic number.
GoodBytes == <<1>>
BadBytes == <<0>>
Decodes(data) == data # <<>> /\ data[1] = 1

-----------------------------------------------------------------------------
(* The consumer's state as a record, and its handlers *)

\* The fields a handler may read or change, and what the step did (eff).
State ==
    [current_index |-> current_index, filters |-> filters,
     active_printing_index |-> active_printing_index,
     meta_by_key |-> meta_by_key, _fetching_meta |-> _fetching_meta,
     _all_prints_override |-> _all_prints_override,
     _auto_relaxed_cards |-> _auto_relaxed_cards,
     thumb_widgets |-> thumb_widgets, _thumb_context |-> _thumb_context,
     _thumb_token |-> _thumb_token, _big_token |-> _big_token,
     big_image |-> big_image,
     _meta_executor |-> _meta_executor, _image_executor |-> _image_executor,
     _preload_executor |-> _preload_executor,
     eff |-> {}, raised |-> FALSE]

Commit(s) ==
    /\ current_index' = s.current_index
    /\ filters' = s.filters
    /\ active_printing_index' = s.active_printing_index
    /\ meta_by_key' = s.meta_by_key
    /\ _fetching_meta' = s._fetching_meta
    /\ _all_prints_override' = s._all_prints_override
    /\ _auto_relaxed_cards' = s._auto_relaxed_cards
    /\ thumb_widgets' = s.thumb_widgets
    /\ _thumb_context' = s._thumb_context
    /\ _thumb_token' = s._thumb_token
    /\ _big_token' = s._big_token
    /\ big_image' = s.big_image
    /\ _meta_executor' = s._meta_executor
    /\ _image_executor' = s._image_executor
    /\ _preload_executor' = s._preload_executor

Did(s, what) == [s EXCEPT !.eff = @ \cup {what}]

\* ---- query / filter helpers

current_card(s) == Deck[s.current_index + 1]

current_sig(s) == filters_signature(s.filters)

effective_sig_for_card(s, card) ==
    IF card \in s._all_prints_override THEN "ALL" ELSE current_sig(s)

effective_filters_for_card(s, card) ==
    IF card \in s._all_prints_override THEN NO_FILTERS ELSE s.filters

active_printing_idx(s, card) ==
    IF card \in DOMAIN s.active_printing_index THEN s.active_printing_index[card] ELSE 0

set_active_printing_idx(s, card, idx) ==
    [s EXCEPT !.active_printing_index = Put(@, card, idx)]

\* self.meta_by_key.get((card, sig), [])
meta_get(s, card, sig) ==
    IF <<card, sig>> \in DOMAIN s.meta_by_key THEN s.meta_by_key[<<card, sig>>] ELSE <<>>

\* ---- what the big preview shows

NoKey == [cls |-> "none", card |-> <<>>, sig |-> "", tok |-> 0, idx |-> 0]
Show(kind, key) == [kind |-> kind, key |-> key]

\* f"big::{card}::{sig}::{tok}::{idx}" and f"thumb::..." with the parts that
\* key.split("::") gives back; card names of the model hold no "::".
ImageKey(cls, card, sig, tok, idx) ==
    [cls |-> cls, card |-> card, sig |-> sig, tok |-> tok, idx |-> idx]

\* ---- image results

on_image_error(s, key, msg) ==
    IF key.cls = "big"
    THEN IF \/ key.card # current_card(s)
            \/ key.sig # effective_sig_for_card(s, key.card)
         THEN s
         ELSE IF key.tok # s._big_token
         THEN s
         ELSE [s EXCEPT !.big_image = Show(msg, key)]
    ELSE IF \/ key.card # current_card(s)
            \/ key.sig # effective_sig_for_card(s, key.card)
         THEN s
         ELSE IF key.tok # s._thumb_token
         THEN s
         ELSE IF 0 <= key.idx /\ key.idx < Len(s.thumb_widgets)
         THEN [s EXCEPT !.thumb_widgets[key.idx + 1].text = "ERR",
                        !.thumb_widgets[key.idx + 1].shown = key]
         ELSE s

\* on_image_bytes_ready that does not compare the tokens
on_image_bytes_ready_without_token(s, key, data) ==
    IF key.cls = "big"
    THEN IF \/ key.card # current_card(s)
            \/ key.sig # effective_sig_for_card(s, key.card)
         THEN s
         ELSE IF ~Decodes(data)
         THEN on_image_error(s, key, "decode_failed")
         ELSE [s EXCEPT !.big_image = Show("pixmap", key)]
    ELSE IF \/ key.card # current_card(s)
            \/ key.sig # effective_sig_for_card(s, key.card)
         THEN s
         ELSE IF ~(0 <= key.idx /\ key.idx < Len(s.thumb_widgets))
         THEN s
         ELSE IF ~Decodes(data)
         THEN on_image_error(s, key, "decode_failed")
         ELSE [s EXCEPT !.thumb_widgets[key.idx + 1].text = "pixmap",
                        !.thumb_widgets[key.idx + 1].shown = key,
                        !.thumb_widgets[key.idx + 1].loaded = TRUE]

on_image_bytes_ready(s, key, data) ==
    IF key.cls = "big"
    THEN IF \/ key.card # current_card(s)
            \/ key.sig # effective_sig_for_card(s, key.card)
         THEN s
         ELSE IF key.tok # s._big_token
         THEN s
         ELSE IF ~Decodes(data)
         THEN on_image_error(s, key, "decode_failed")
         ELSE [s EXCEPT !.big_image = Show("pixmap", key)]
    ELSE IF \/ key.card # current_card(s)
            \/ key.sig # effective_sig_for_card(s, key.card)
         THEN s
         ELSE IF key.tok # s._thumb_token
         THEN s
         ELSE IF ~(0 <= key.idx /\ key.idx < Len(s.thumb_widgets))
         THEN s
         ELSE IF s.thumb_widgets[key.idx + 1].token # key.tok
         THEN s
         ELSE IF ~Decodes(data)
         THEN on_image_error(s, key, "decode_failed")
         ELSE [s EXCEPT !.thumb_widgets[key.idx + 1].text = "pixmap",
                        !.thumb_widgets[key.idx + 1].shown = key,
                        !.thumb_widgets[key.idx + 1].loaded = TRUE]

\* ---- image loads

ImageJob(fn, kind, card, sig, idx, key) ==
    [fn |-> fn, kind |-> kind, card |-> card, sig |-> sig, idx |-> idx,
     key |-> key, pc |-> "fetch", data |-> <<>>, write_failed |-> FALSE]

\* load_image_bytes_cached: a cached image is signalled from the calling
\* (consumer) thread, so the slot runs at once; else a job is submitted.
load_image_bytes_cached(s, kind, card, sig, idx, url, key) ==
    IF url = ""
    THEN s
    ELSE LET cached == get_cached_image_bytes(cache_images, kind, card, sig, idx)
             s1 == Did(s, "disk_read")
         IN  IF cached.found /\ cached.value # <<>>
             THEN on_image_bytes_ready(s1, key, cached.value)
             ELSE [Did(s1, "submit_image") EXCEPT
                      !._image_executor = Append(@, ImageJob("load", kind, card, sig, idx, key))]

\* prefetch_to_cache that does not look at the disk cache
prefetch_to_cache_without_check(s, kind, card, sig, idx, url) ==
    IF url = ""
    THEN s
    ELSE [Did(s, "submit_image") EXCEPT
             !._image_executor = Append(@, ImageJob("prefetch", kind, card, sig, idx, NoKey))]

\* prefetch_to_cache that invalidates the previews from the worker's thread
prefetch_to_cache_bumping(s, kind, card, sig, idx, url) ==
    IF url = ""
    THEN s
    ELSE [Did(s, "submit_image") EXCEPT
             !._big_token = @ + 1,
             !._image_executor = Append(@, ImageJob("prefetch", kind, card, sig, idx, NoKey))]

\* prefetch_to_cache: fills the disk cache only; the job goes to the image pool.
prefetch_to_cache(s, kind, card, sig, idx, url) ==
    IF url = ""
    THEN s
    ELSE LET cached == get_cached_image_bytes(cache_images, kind, card, sig, idx)
             s1 == Did(s, "disk_read")
         IN  IF cached.found
             THEN s1
             ELSE [Did(s1, "submit_image") EXCEPT
                      !._image_executor = Append(@, ImageJob("prefetch", kind, card, sig, idx, NoKey))]

\* ---- thumbnails

\* _prints_fingerprint
_prints_fingerprint(prints) ==
    IF prints = <<>>
    THEN <<0>>
    ELSE << Len(prints), prints[1].set_code, prints[1].collector_number,
            prints[Len(prints)].set_code, prints[Len(prints)].collector_number >>

NoContext == [set |-> FALSE, card |-> <<>>, sig |-> "", fp |-> <<0>>]
Context(card, sig, fp) == [set |-> TRUE, card |-> card, sig |-> sig, fp |-> fp]

\* clear_thumbnails that starts the tokens of the strip again
clear_thumbnails_resetting(s) ==
    [s EXCEPT !.thumb_widgets = <<>>, !._thumb_token = 0]

clear_thumbnails(s) ==
    [s EXCEPT !.thumb_widgets = <<>>, !._thumb_token = @ + 1]

\* ThumbLabel that gives every widget the first position
ThumbLabel_first_position(idx, tok, url) ==
    [idx |-> 0, token |-> tok, url |-> url, loaded |-> FALSE, text |-> "...",
     shown |-> NoKey]

ThumbLabel(idx, tok, url) ==
    [idx |-> idx, token |-> tok, url |-> url, loaded |-> FALSE, text |-> "...",
     shown |-> NoKey]

build_thumbnails(s, card, sig, prints) ==
    LET s1 == clear_thumbnails(s)
        tok == s1._thumb_token + 1
    IN  [s1 EXCEPT !._thumb_token = tok,
                   !.thumb_widgets =
                       [i \in 1..Len(prints) |-> ThumbLabel(i - 1, tok, prints[i].image_small)]]

\* The loop of _load_visible_thumbs over range(i, end_idx).
RECURSIVE LoadThumbs(_, _, _, _, _, _)
LoadThumbs(s, card, sig, tok, i, end_idx) ==
    IF i >= end_idx
    THEN s
    ELSE LET w == s.thumb_widgets[i + 1]
             s1 == IF w.token # tok \/ w.loaded
                   THEN s
                   ELSE load_image_bytes_cached(s, "small", card, sig, i, w.url,
                                                ImageKey("thumb", card, sig, tok, i))
         IN  LoadThumbs(s1, card, sig, tok, i + 1, end_idx)

\* _load_visible_thumbs.  The strip of the model is shorter than
\* THUMB_LOAD_BUFFER, so at every scroll position start_px // step is at most
\* the strip's length and the window is the whole strip.
_load_visible_thumbs(s) ==
    LET card == current_card(s)
        sig == effective_sig_for_card(s, card)
        prints == meta_get(s, card, sig)
        start_idx == Max(0, 0 - THUMB_LOAD_BUFFER)
        end_idx == Min(Len(s.thumb_widgets), 0 + THUMB_LOAD_BUFFER + 1)
    IN  IF prints = <<>> \/ s.thumb_widgets = <<>>
        THEN s
        ELSE LoadThumbs(s, card, sig, s._thumb_token, start_idx, end_idx)

\* ---- render

\* refresh_card_ui from "ctx = (card, sig, fp)" on: the strip is rebuilt when
\* its context changed, then the visible thumbnails are loaded
\* the strip is rebuilt at every refresh
RefreshThumbs_always_rebuilding(s, card, sig, prints) ==
    LET ctx == Context(card, sig, _prints_fingerprint(prints))
    IN  _load_visible_thumbs(
            [build_thumbnails(s, card, sig, prints) EXCEPT !._thumb_context = ctx])

RefreshThumbs(s, card, sig, prints) ==
    LET ctx == Context(card, sig, _prints_fingerprint(prints))
    IN  _load_visible_thumbs(
            IF s._thumb_context # ctx
            THEN [build_thumbnails(s, card, sig, prints) EXCEPT !._thumb_context = ctx]
            ELSE s)

\* the preview is asked for under a key that holds no token of the window
RefreshBig_with_token_zero(s, card, sig, prints, aidx) ==
    RefreshThumbs(
        load_image_bytes_cached(s, "normal", card, sig, aidx, prints[aidx + 1].image_normal,
                                ImageKey("big", card, sig, 0, aidx)),
        card, sig, prints)

\* refresh_card_ui from the bump of _big_token on
RefreshBig(s, card, sig, prints, aidx) ==
    RefreshThumbs(
        load_image_bytes_cached(s, "normal", card, sig, aidx, prints[aidx + 1].image_normal,
                                ImageKey("big", card, sig, s._big_token, aidx)),
        card, sig, prints)

refresh_card_ui(s, card) ==
    LET sig == effective_sig_for_card(s, card)
        prints == meta_get(s, card, sig)
    IN  IF prints = <<>>
        THEN clear_thumbnails([s EXCEPT !.big_image = Show("no_printings", NoKey)])
        ELSE LET aidx == Max(0, Min(active_printing_idx(s, card), Len(prints) - 1))
             IN  RefreshBig([set_active_printing_idx(s, card, aidx) EXCEPT
                                !._big_token = @ + 1,
                                !.big_image = Show("loading", NoKey)],
                            card, sig, prints, aidx)

-----------------------------------------------------------------------------
(* Metadata: ensure_meta and the delivery of its results *)

\* A submitted worker closure: card, sig and filters_copy are what it
\* captured; prints, emit_sig and auto_relaxed are its locals; filtered and
\* fallback record what its two fetches answered.
MetaJob(card, sig, filters_copy) ==
    [card |-> card, sig |-> sig, filters_copy |-> filters_copy, pc |-> "fetch",
     prints |-> <<>>, emit_sig |-> sig, auto_relaxed |-> FALSE,
     filtered |-> <<>>, fallback |-> <<>>, write_failed |-> FALSE]

\* ensure_meta that submits although the key is in flight
ensure_meta_without_inflight_check(s, card) ==
    LET sig == effective_sig_for_card(s, card)
        key == << card, sig >>
    IN  IF key \in DOMAIN s.meta_by_key
        THEN refresh_card_ui(s, card)
        ELSE LET cached == get_cached_meta(cache_meta, card, sig)
                 s1 == Did(s, "disk_read")
             IN  IF cached.raised
                 THEN [s1 EXCEPT !.raised = TRUE]
                 ELSE IF cached.found
                 THEN refresh_card_ui([s1 EXCEPT !.meta_by_key = Put(@, key, cached.value)], card)
                 ELSE [Did(s1, "submit_meta") EXCEPT
                          !._fetching_meta = @ \cup {key},
                          !._meta_executor =
                              Append(@, MetaJob(card, sig, effective_filters_for_card(s1, card)))]

\* ensure_meta that does not look at the disk cache
ensure_meta_without_disk_check(s, card) ==
    LET sig == effective_sig_for_card(s, card)
        key == << card, sig >>
    IN  IF key \in DOMAIN s.meta_by_key
        THEN refresh_card_ui(s, card)
        ELSE IF key \in s._fetching_meta
        THEN s
        ELSE [Did(s, "submit_meta") EXCEPT
                 !._fetching_meta = @ \cup {key},
                 !._meta_executor =
                     Append(@, MetaJob(card, sig, effective_filters_for_card(s, card)))]

ensure_meta(s, card) ==
    LET sig == effective_sig_for_card(s, card)
        key == << card, sig >>
    IN  IF key \in DOMAIN s.meta_by_key
        THEN refresh_card_ui(s, card)
        ELSE LET cached == get_cached_meta(cache_meta, card, sig)
                 s1 == Did(s, "disk_read")
             IN  IF cached.raised
                 THEN [s1 EXCEPT !.raised = TRUE]
                 ELSE IF cached.found
                 THEN refresh_card_ui([s1 EXCEPT !.meta_by_key = Put(@, key, cached.value)], card)
                 ELSE IF key \in s1._fetching_meta
                 THEN s1
                 ELSE [Did(s1, "submit_meta") EXCEPT
                          !._fetching_meta = @ \cup {key},
                          !._meta_executor =
                              Append(@, MetaJob(card, sig, effective_filters_for_card(s1, card)))]

\* on_meta_ready that leaves _all_prints_override alone
on_meta_ready_without_override(s, card, prints, sig, auto_relaxed) ==
    LET s1 == IF auto_relaxed
              THEN [s EXCEPT !._auto_relaxed_cards = @ \cup {card}]
              ELSE s
    IN  IF sig # effective_sig_for_card(s1, card)
        THEN [s1 EXCEPT !._fetching_meta = @ \ {<<card, sig>>}]
        ELSE LET s2 == [s1 EXCEPT !._fetching_meta = @ \ {<<card, sig>>},
                                  !.meta_by_key = Put(@, <<card, sig>>, prints)]
             IN  IF card = current_card(s2)
                 THEN refresh_card_ui([s2 EXCEPT !._thumb_context = NoContext], card)
                 ELSE s2

\* on_meta_ready that puts every card of the deck in the override set
on_meta_ready_relaxing_every_card(s, card, prints, sig, auto_relaxed) ==
    LET s1 == IF auto_relaxed
              THEN [s EXCEPT !._all_prints_override = Cards,
                             !._auto_relaxed_cards = @ \cup {card}]
              ELSE s
    IN  IF sig # effective_sig_for_card(s1, card)
        THEN [s1 EXCEPT !._fetching_meta = @ \ {<<card, sig>>}]
        ELSE LET s2 == [s1 EXCEPT !._fetching_meta = @ \ {<<card, sig>>},
                                  !.meta_by_key = Put(@, <<card, sig>>, prints)]
             IN  IF card = current_card(s2)
                 THEN refresh_card_ui([s2 EXCEPT !._thumb_context = NoContext], card)
                 ELSE s2

on_meta_ready(s, card, prints, sig, auto_relaxed) ==
    LET s1 == IF auto_relaxed
              THEN [s EXCEPT !._all_prints_override = @ \cup {card},
                             !._auto_relaxed_cards = @ \cup {card}]
              ELSE s
    IN  IF sig # effective_sig_for_card(s1, card)
        THEN [s1 EXCEPT !._fetching_meta = @ \ {<<card, sig>>}]
        ELSE LET s2 == [s1 EXCEPT !._fetching_meta = @ \ {<<card, sig>>},
                                  !.meta_by_key = Put(@, <<card, sig>>, prints)]
             IN  IF card = current_card(s2)
                 THEN refresh_card_ui([s2 EXCEPT !._thumb_context = NoContext], card)
                 ELSE s2

\* on_meta_error that submits the failed fetch again
on_meta_error_resubmitting(s, card, msg, sig) ==
    LET s1 == [s EXCEPT !._meta_executor =
                            Append(@, MetaJob(card, sig, effective_filters_for_card(s, card)))]
    IN  IF sig # effective_sig_for_card(s1, card)
        THEN s1
        ELSE IF card = current_card(s1)
        THEN [s1 EXCEPT !.big_image = Show("meta_failed", NoKey)]
        ELSE s1

on_meta_error(s, card, msg, sig) ==
    LET s1 == [s EXCEPT !._fetching_meta = @ \ {<<card, sig>>}]
    IN  IF sig # effective_sig_for_card(s1, card)
        THEN s1
        ELSE IF card = current_card(s1)
        THEN [s1 EXCEPT !.big_image = Show("meta_failed", NoKey)]
        ELSE s1

-----------------------------------------------------------------------------
(* Navigation, filters, override *)

PreloadJob(card, sig) ==
    [card |-> card, sig |-> sig, pc |-> "read", prints |-> <<>>, i |-> 0]

preload_next(s, idx) ==
    LET nxt == idx + 1
    IN  IF nxt >= Len(Deck)
        THEN s
        ELSE LET card == Deck[nxt + 1]
                 sig == effective_sig_for_card(s, card)
             IN  [Did(s, "submit_preload") EXCEPT
                     !._preload_executor = Append(@, PreloadJob(card, sig))]

\* the statement after a call: skipped when the call raised
PreloadUnlessRaised(s, idx) == IF s.raised THEN s ELSE preload_next(s, idx)

goto_index(s, idx0, force) ==
    LET idx == Max(0, Min(idx0, Len(Deck) - 1))
    IN  IF ~force /\ idx = s.current_index
        THEN s
        ELSE PreloadUnlessRaised(
                 ensure_meta([s EXCEPT !.current_index = idx, !._thumb_context = NoContext],
                             Deck[idx + 1]),
                 idx)

RefreshUnlessRaised(s, card) == IF s.raised THEN s ELSE refresh_card_ui(s, card)

_apply_filters_if_changed(s, new_filters) ==
    IF new_filters = s.filters
    THEN s
    ELSE RefreshUnlessRaised(
             ensure_meta([s EXCEPT !.filters = new_filters, !._thumb_context = NoContext],
                         current_card(s)),
             current_card(s))

\* a toggle that leaves _auto_relaxed_cards alone
toggle_all_prints_for_current_keeping_relaxed(s) ==
    LET card == current_card(s)
        s1 == IF card \in s._all_prints_override
              THEN [s EXCEPT !._all_prints_override = @ \ {card}]
              ELSE [s EXCEPT !._all_prints_override = @ \cup {card}]
    IN  RefreshUnlessRaised(ensure_meta([s1 EXCEPT !._thumb_context = NoContext], card), card)

toggle_all_prints_for_current(s) ==
    LET card == current_card(s)
        s1 == IF card \in s._all_prints_override
              THEN [s EXCEPT !._all_prints_override = @ \ {card},
                             !._auto_relaxed_cards = @ \ {card}]
              ELSE [s EXCEPT !._all_prints_override = @ \cup {card}]
    IN  RefreshUnlessRaised(ensure_meta([s1 EXCEPT !._thumb_context = NoContext], card), card)

-----------------------------------------------------------------------------
(* Bounds of the model *)

\* the number of user events (keys, clicks, filter changes) of a run
MaxEvents == 2

-----------------------------------------------------------------------------
(* Observation of a step: what held before it and what it did *)

Observe(op, card, sig, key, s0, s1) ==
    [op |-> op, card |-> card, sig |-> sig, key |-> key,
     eff |-> s1.eff, raised |-> s1.raised,
     was_mem |-> <<card, sig>> \in DOMAIN s0.meta_by_key,
     was_disk |-> get_cached_meta(cache_meta, card, sig).found,
     was_corrupt |-> get_cached_meta(cache_meta, card, sig).raised,
     was_inflight |-> <<card, sig>> \in s0._fetching_meta,
     was_relaxed |-> card \in s0._auto_relaxed_cards,
     was_cached |-> FALSE, was_failed |-> FALSE,
     value |-> get_cached_meta(cache_meta, card, sig).value,
     meta_jobs_added |-> Len(s1._meta_executor) - Len(s0._meta_executor),
     image_jobs_added |-> Len(s1._image_executor) - Len(s0._image_executor),
     inflight_added |-> s1._fetching_meta \ s0._fetching_meta,
     thumb_bumps |-> s1._thumb_token - s0._thumb_token,
     big_bumps |-> s1._big_token - s0._big_token,
     applied |-> s1.big_image # s0.big_image \/ s1.thumb_widgets # s0.thumb_widgets]

NoObservation ==
    [op |-> "init", card |-> <<>>, sig |-> "", key |-> NoKey, eff |-> {}, raised |-> FALSE,
     was_mem |-> FALSE, was_disk |-> FALSE, was_corrupt |-> FALSE, was_inflight |-> FALSE, was_relaxed |-> FALSE,
     was_cached |-> FALSE, was_failed |-> FALSE, value |-> <<>>, meta_jobs_added |-> 0, image_jobs_added |-> 0,
     inflight_added |-> {}, thumb_bumps |-> 0, big_bumps |-> 0, applied |-> FALSE]

\* A handler ran from state s0 to state s1.  An exception that leaves a slot
\* is printed and dropped by the event loop.
\* was_failed: the step before was the delivery of the error of this key.
Handle(op, card, sig, key, s0, s1) ==
    /\ Commit(s1)
    /\ last' = [Observe(op, card, sig, key, s0, s1) EXCEPT
                   !.was_failed = /\ last.op = "on_meta_error"
                                  /\ last.card = card
                                  /\ last.sig = sig]

-----------------------------------------------------------------------------
(* Consumer events *)

UserEvent ==
    /\ events < MaxEvents
    /\ events' = events + 1

\* Up / Down / list click / G: goto_index(idx)
GotoIndex(idx) ==
    /\ UserEvent
    /\ idx # current_index
    /\ Handle("goto_index", Deck[idx + 1], effective_sig_for_card(State, Deck[idx + 1]),
              NoKey, State, goto_index(State, idx, FALSE))
    /\ UNCHANGED << diskVars, envVars, dlVars, rlVars >>

\* a filter widget changed: _apply_filters_if_changed
ApplyFilters(new_filters) ==
    /\ UserEvent
    /\ new_filters # filters
    /\ LET card == current_card(State)
       IN  Handle("_apply_filters_if_changed", card,
                  effective_sig_for_card([State EXCEPT !.filters = new_filters], card),
                  NoKey, State, _apply_filters_if_changed(State, new_filters))
    /\ UNCHANGED << diskVars, envVars, dlVars, rlVars >>

\* key 0: toggle_all_prints_for_current
ToggleAllPrints ==
    /\ UserEvent
    /\ LET card == current_card(State)
       IN  Handle("toggle_all_prints_for_current", card,
                  (IF card \in _all_prints_override THEN current_sig(State) ELSE "ALL"),
                  NoKey, State, toggle_all_prints_for_current(State))
    /\ UNCHANGED << diskVars, envVars, dlVars, rlVars >>

-----------------------------------------------------------------------------
(* The metadata pool: ensure_meta.worker *)

\* the stages of a job of the metadata pool that has not finished
MetaRunning == {"fetch", "fallback", "write"}

\* a pool that starts a thread for every job
Running_unbounded(pool, pcs, max_workers) == {i \in 1..Len(pool) : pool[i].pc \in pcs}

\* ThreadPoolExecutor(max_workers): the jobs are started in the order of
\* their submission, each as soon as a thread is idle, so the unfinished jobs
\* that have a thread are the first max_workers of them.
Running(pool, pcs, max_workers) ==
    {i \in 1..Len(pool) :
        /\ pool[i].pc \in pcs
        /\ Cardinality({j \in 1..(i - 1) : pool[j].pc \in pcs}) < max_workers}

\* fetch_all_printings: the catalog answers with one of its lists, or the
\* request raises; every page waits on API_LIMITER first.
FetchOutcomes ==
    {[ok |-> TRUE, prints |-> l] : l \in catalog}
        \cup (IF "fetch" \in faults THEN {[ok |-> FALSE, prints |-> <<>>]} ELSE {})

\* whether a write to the disk succeeds
WriteOutcomes(fault) == IF fault \in faults THEN BOOLEAN ELSE {TRUE}

WorkerObservation(op, job, effects) ==
    [NoObservation EXCEPT !.op = op, !.card = job.card, !.sig = job.sig, !.eff = effects,
                          !.was_inflight = <<job.card, job.sig>> \in _fetching_meta]

\* an exception that leaves the worker: the job ends without a signal
FetchFailed_escaping(job) == [job EXCEPT !.pc = "dead"]

\* except Exception as e: self.meta_signals.error.emit(card, str(e), sig)
FetchFailed(job) == [job EXCEPT !.pc = "error"]

\* an auto-relax test that looks at the number of printings only
AutoRelaxDue_any_short(job, prints) == Len(prints) < AUTO_RELAX_BELOW

\* if filters_copy and 0 < len(prints) < 5 and card not in
\* self._all_prints_override: the set is read from the worker's thread
AutoRelaxDue(job, prints) ==
    /\ job.filters_copy # NO_FILTERS
    /\ 0 < Len(prints) /\ Len(prints) < AUTO_RELAX_BELOW
    /\ job.card \notin _all_prints_override

\* prints = fetch_all_printings(query, filters_copy, ...), then the test of
\* the auto-relax condition.
MetaFetch(i) ==
    /\ i \in Running(_meta_executor, MetaRunning, META_WORKERS)
    /\ _meta_executor[i].pc = "fetch"
    /\ \E r \in FetchOutcomes :
         LET job == _meta_executor[i]
             relax == AutoRelaxDue(job, r.prints)
         IN  _meta_executor' =
                 [_meta_executor EXCEPT ![i] =
                     IF ~r.ok THEN FetchFailed(job)
                     ELSE [job EXCEPT !.prints = r.prints, !.filtered = r.prints,
                                      !.pc = IF relax THEN "fallback" ELSE "write"]]
    /\ UNCHANGED last
    /\ UNCHANGED << current_index, filters, active_printing_index, meta_by_key,
                    _fetching_meta, _all_prints_override, _auto_relaxed_cards,
                    thumb_widgets, _thumb_context, _thumb_token, _big_token, big_image,
                    _image_executor, _preload_executor,
                    diskVars, envVars, events, dlVars, rlVars >>

\* fallback = fetch_all_printings(query, {}, ...)
MetaFallback(i) ==
    /\ i \in Running(_meta_executor, MetaRunning, META_WORKERS)
    /\ _meta_executor[i].pc = "fallback"
    /\ \E r \in FetchOutcomes :
         LET job == _meta_executor[i]
         IN  _meta_executor' =
                 [_meta_executor EXCEPT ![i] =
                     IF ~r.ok THEN FetchFailed(job)
                     ELSE IF r.prints # <<>>
                     THEN [job EXCEPT !.prints = r.prints, !.emit_sig = "ALL",
                                      !.auto_relaxed = TRUE, !.fallback = r.prints,
                                      !.pc = "write"]
                     ELSE [job EXCEPT !.pc = "write"]]
    /\ UNCHANGED last
    /\ UNCHANGED << current_index, filters, active_printing_index, meta_by_key,
                    _fetching_meta, _all_prints_override, _auto_relaxed_cards,
                    thumb_widgets, _thumb_context, _thumb_token, _big_token, big_image,
                    _image_executor, _preload_executor,
                    diskVars, envVars, events, dlVars, rlVars >>

\* set_cached_meta that lets the exception of a failing write through
MetaWritten_raising(job, ok) ==
    [job EXCEPT !.pc = IF ok THEN "ready" ELSE "error", !.write_failed = ~ok]

\* the job after set_cached_meta returned: meta_ready is emitted, whether the
\* file was written or not
MetaWritten(job, ok) == [job EXCEPT !.pc = "ready", !.write_failed = ~ok]

\* self.project.set_cached_meta(card, emit_sig, prints), then
\* meta_ready.emit(card, prints, emit_sig, auto_relaxed).  The job is at
\* "write" while write_text runs; the file changes when it returns.
MetaWrite(i) ==
    /\ i \in Running(_meta_executor, MetaRunning, META_WORKERS)
    /\ _meta_executor[i].pc = "write"
    /\ LET job == _meta_executor[i]
       IN  \E ok \in WriteOutcomes("meta_write") :
             /\ cache_meta' = set_cached_meta(cache_meta, job.card, job.emit_sig, job.prints, ok)
             /\ _meta_executor' = [_meta_executor EXCEPT ![i] = MetaWritten(job, ok)]
    /\ UNCHANGED last
    /\ UNCHANGED << current_index, filters, active_printing_index, meta_by_key,
                    _fetching_meta, _all_prints_override, _auto_relaxed_cards,
                    thumb_widgets, _thumb_context, _thumb_token, _big_token, big_image,
                    _image_executor, _preload_executor,
                    cache_images, envVars, events, dlVars, rlVars >>

\* on_meta_ready ran from s0 to s1 on the result of job
HandleMetaReady(job, s0, s1) ==
    /\ Commit(s1)
    /\ last' = [Observe("on_meta_ready", job.card, job.sig, NoKey, s0, s1)
                   EXCEPT !.eff = IF job.auto_relaxed THEN {"auto_relaxed"} ELSE {},
                          !.value = job.prints]

\* the queued meta_ready signal reaches its slot
OnMetaReady(i) ==
    /\ _meta_executor[i].pc = "ready"
    /\ LET job == _meta_executor[i]
           s0 == [State EXCEPT !._meta_executor = RemoveAt(@, i)]
       IN  HandleMetaReady(job, s0,
                           on_meta_ready(s0, job.card, job.prints, job.emit_sig,
                                         job.auto_relaxed))
    /\ UNCHANGED << diskVars, envVars, events, dlVars, rlVars >>

\* the queued error signal reaches its slot
OnMetaError(i) ==
    /\ _meta_executor[i].pc = "error"
    /\ LET job == _meta_executor[i]
           s0 == [State EXCEPT !._meta_executor = RemoveAt(@, i)]
       IN  Handle("on_meta_error", job.card, job.sig, NoKey, s0,
                  on_meta_error(s0, job.card, "error", job.sig))
    /\ UNCHANGED << diskVars, envVars, events, dlVars, rlVars >>

-----------------------------------------------------------------------------
(* The preload pool: preload_next.worker *)

PreloadRunning == {"read", "small", "normal"}

\* prints = get_cached_meta(card, sig); nothing cached (or a file that does
\* not parse: the exception is swallowed) ends the job.
PreloadRead(j) ==
    /\ j \in Running(_preload_executor, PreloadRunning, PRELOAD_WORKERS)
    /\ _preload_executor[j].pc = "read"
    /\ LET job == _preload_executor[j]
           cached == get_cached_meta(cache_meta, job.card, job.sig)
       IN  _preload_executor' =
               IF cached.raised \/ ~cached.found \/ cached.value = <<>>
               THEN RemoveAt(_preload_executor, j)
               ELSE [_preload_executor EXCEPT ![j].pc = "small", ![j].i = 0,
                                              ![j].prints = cached.value]
    /\ UNCHANGED last
    /\ UNCHANGED << current_index, filters, active_printing_index, meta_by_key,
                    _fetching_meta, _all_prints_override, _auto_relaxed_cards,
                    thumb_widgets, _thumb_context, _thumb_token, _big_token, big_image,
                    _meta_executor, _image_executor,
                    diskVars, envVars, events, dlVars, rlVars >>

\* a worker that goes through the whole list in both loops
Prefetched_whole_list(j, job, kind, s1) ==
    LET n_small == Len(job.prints)
        n_normal == Len(job.prints)
        next_pool ==
            IF kind = "small"
            THEN IF job.i + 1 < n_small
                 THEN [s1._preload_executor EXCEPT ![j].i = job.i + 1]
                 ELSE [s1._preload_executor EXCEPT ![j].pc = "normal", ![j].i = 0]
            ELSE IF job.i + 1 < n_normal
                 THEN [s1._preload_executor EXCEPT ![j].i = job.i + 1]
                 ELSE RemoveAt(s1._preload_executor, j)
    IN  /\ Commit([s1 EXCEPT !._preload_executor = next_pool])
        /\ last' = [Observe("prefetch_to_cache", job.card, job.sig,
                            ImageKey(kind, job.card, job.sig, 0, job.i), State, s1)
                       EXCEPT !.was_cached =
                           get_cached_image_bytes(cache_images, kind, job.card,
                                                  job.sig, job.i).found]

\* the worker of job called prefetch_to_cache, which gave s1, and moves on
\* in its loops
Prefetched(j, job, kind, s1) ==
    LET n_small == Min(Len(job.prints), PRELOAD_NEXT_THUMBS)
        n_normal == Min(Len(job.prints), PRELOAD_NEXT_BIG)
        next_pool ==
            IF kind = "small"
            THEN IF job.i + 1 < n_small
                 THEN [s1._preload_executor EXCEPT ![j].i = job.i + 1]
                 ELSE [s1._preload_executor EXCEPT ![j].pc = "normal", ![j].i = 0]
            ELSE IF job.i + 1 < n_normal
                 THEN [s1._preload_executor EXCEPT ![j].i = job.i + 1]
                 ELSE RemoveAt(s1._preload_executor, j)
    IN  /\ Commit([s1 EXCEPT !._preload_executor = next_pool])
        /\ last' = [Observe("prefetch_to_cache", job.card, job.sig,
                            ImageKey(kind, job.card, job.sig, 0, job.i), State, s1)
                       EXCEPT !.was_cached =
                           get_cached_image_bytes(cache_images, kind, job.card,
                                                  job.sig, job.i).found]

\* one call of prefetch_to_cache from the two loops of the worker:
\* prints[:PRELOAD_NEXT_THUMBS] as "small", then prints[:PRELOAD_NEXT_BIG] as "normal"
PreloadPrefetch(j) ==
    /\ j \in Running(_preload_executor, PreloadRunning, PRELOAD_WORKERS)
    /\ _preload_executor[j].pc \in {"small", "normal"}
    /\ LET job == _preload_executor[j]
           kind == job.pc
           pr == job.prints[job.i + 1]
           url == IF kind = "small" THEN pr.image_small ELSE pr.image_normal
       IN  Prefetched(j, job, kind, prefetch_to_cache(State, kind, job.card, job.sig, job.i, url))
    /\ UNCHANGED << diskVars, envVars, events, dlVars, rlVars >>

-----------------------------------------------------------------------------
(* The image pool: load_image_bytes_cached.job and prefetch_to_cache.job *)

\* http_get_bytes answers with bytes or raises
ByteOutcomes ==
    {[ok |-> TRUE, data |-> GoodBytes]}
        \cup (IF "bad_bytes" \in faults THEN {[ok |-> TRUE, data |-> BadBytes]} ELSE {})
        \cup (IF "image_fetch" \in faults THEN {[ok |-> FALSE, data |-> <<>>]} ELSE {})

\* a prefetch job that signals its result as a load job does
ImageFetched_signalling(pool, i, r, wrote) ==
    [pool EXCEPT ![i].pc = IF r.ok THEN "ready" ELSE "error",
                 ![i].data = r.data,
                 ![i].write_failed = r.ok /\ ~wrote]

\* the pool after job i has run: a load has emitted bytes_ready or error and
\* waits for its delivery, a prefetch has ended without a signal
ImageFetched(pool, i, r, wrote) ==
    IF pool[i].fn = "prefetch"
    THEN RemoveAt(pool, i)
    ELSE [pool EXCEPT ![i].pc = IF r.ok THEN "ready" ELSE "error",
                      ![i].data = r.data,
                      ![i].write_failed = r.ok /\ ~wrote]

\* data = http_get_bytes(url); set_cached_image_bytes(...); bytes_ready.emit
\* (a load) or nothing (a prefetch).  An exception: error.emit (a load), pass
\* (a prefetch).
ImageFetch(i) ==
    /\ i \in Running(_image_executor, {"fetch"}, IMAGE_WORKERS)
    /\ LET job == _image_executor[i]
       IN  \E r \in ByteOutcomes, wrote \in WriteOutcomes("image_write") :
             /\ cache_images' =
                    IF r.ok
                    THEN set_cached_image_bytes(cache_images, job.kind, job.card, job.sig,
                                                job.idx, r.data, wrote)
                    ELSE cache_images
             /\ _image_executor' = ImageFetched(_image_executor, i, r, wrote)
    /\ last' = [WorkerObservation("image_fetch", _image_executor[i], {"net", "disk_write"})
                   EXCEPT !.key = _image_executor[i].key]
    /\ UNCHANGED << current_index, filters, active_printing_index, meta_by_key,
                    _fetching_meta, _all_prints_override, _auto_relaxed_cards,
                    thumb_widgets, _thumb_context, _thumb_token, _big_token, big_image,
                    _meta_executor, _preload_executor,
                    cache_meta, envVars, events, dlVars, rlVars >>

\* the queued bytes_ready signal reaches its slot
OnImageBytesReady(i) ==
    /\ _image_executor[i].pc = "ready"
    /\ LET job == _image_executor[i]
           s0 == [State EXCEPT !._image_executor = RemoveAt(@, i)]
       IN  Handle("on_image_bytes_ready", job.card, job.sig, job.key, s0,
                  on_image_bytes_ready(s0, job.key, job.data))
    /\ UNCHANGED << diskVars, envVars, events, dlVars, rlVars >>

\* the queued error signal reaches its slot
OnImageError(i) ==
    /\ _image_executor[i].pc = "error"
    /\ LET job == _image_executor[i]
           s0 == [State EXCEPT !._image_executor = RemoveAt(@, i)]
       IN  Handle("on_image_error", job.card, job.sig, job.key, s0,
                  on_image_error(s0, job.key, "fetch_failed"))
    /\ UNCHANGED << diskVars, envVars, events, dlVars, rlVars >>

-----------------------------------------------------------------------------
(* Printing selection within a card *)

\* shift_printing that leaves the preview as it is
shift_printing_without_refresh(s, delta) ==
    LET card == current_card(s)
        sig == effective_sig_for_card(s, card)
        prints == meta_get(s, card, sig)
    IN  IF prints = <<>>
        THEN s
        ELSE LET aidx == active_printing_idx(s, card)
                 nidx == Max(0, Min(aidx + delta, Len(prints) - 1))
             IN  IF nidx = aidx
                 THEN s
                 ELSE set_active_printing_idx(s, card, nidx)

shift_printing(s, delta) ==
    LET card == current_card(s)
        sig == effective_sig_for_card(s, card)
        prints == meta_get(s, card, sig)
    IN  IF prints = <<>>
        THEN s
        ELSE LET aidx == active_printing_idx(s, card)
                 nidx == Max(0, Min(aidx + delta, Len(prints) - 1))
             IN  IF nidx = aidx
                 THEN s
                 ELSE refresh_card_ui(set_active_printing_idx(s, card, nidx), card)

on_thumb_clicked(s, idx) ==
    LET card == current_card(s)
        sig == effective_sig_for_card(s, card)
        prints == meta_get(s, card, sig)
    IN  IF ~(0 <= idx /\ idx < Len(prints))
        THEN s
        ELSE refresh_card_ui(set_active_printing_idx(s, card, idx), card)

\* keys Left / Right
ShiftPrinting(delta) ==
    /\ UserEvent
    /\ shift_printing(State, delta) # State
    /\ LET card == current_card(State)
       IN  Handle("shift_printing", card, effective_sig_for_card(State, card),
                  NoKey, State, shift_printing(State, delta))
    /\ UNCHANGED << diskVars, envVars, dlVars, rlVars >>

\* a click on the idx-th thumbnail of the strip
ThumbClicked(idx) ==
    /\ UserEvent
    /\ idx < Len(thumb_widgets)
    /\ LET card == current_card(State)
       IN  Handle("on_thumb_clicked", card, effective_sig_for_card(State, card),
                  NoKey, State, on_thumb_clicked(State, idx))
    /\ UNCHANGED << diskVars, envVars, dlVars, rlVars >>

-----------------------------------------------------------------------------
(* Initial states *)

EmptyFiles == <<>>

\* MainWindow.__init__ before its closing goto_index(current_index, force=True)
Blank(idx, f, active) ==
    [current_index |-> idx, filters |-> f, active_printing_index |-> active,
     meta_by_key |-> <<>>, _fetching_meta |-> {},
     _all_prints_override |-> {}, _auto_relaxed_cards |-> {},
     thumb_widgets |-> <<>>, _thumb_context |-> NoContext,
     _thumb_token |-> 0, _big_token |-> 0, big_image |-> Show("init", NoKey),
     _meta_executor |-> <<>>, _image_executor |-> <<>>, _preload_executor |-> <<>>,
     eff |-> {}, raised |-> FALSE]

Constructed(s0, s) ==
    /\ last = Observe("goto_index", Deck[1], effective_sig_for_card(s0, Deck[1]), NoKey, s0, s)
    /\ current_index = s.current_index
    /\ filters = s.filters
    /\ active_printing_index = s.active_printing_index
    /\ meta_by_key = s.meta_by_key
    /\ _fetching_meta = s._fetching_meta
    /\ _all_prints_override = s._all_prints_override
    /\ _auto_relaxed_cards = s._auto_relaxed_cards
    /\ thumb_widgets = s.thumb_widgets
    /\ _thumb_context = s._thumb_context
    /\ _thumb_token = s._thumb_token
    /\ _big_token = s._big_token
    /\ big_image = s.big_image
    /\ _meta_executor = s._meta_executor
    /\ _image_executor = s._image_executor
    /\ _preload_executor = s._preload_executor

\* no batch download has been started
DownloadIdle ==
    /\ selections = <<>>
    /\ undo_stack = <<>>
    /\ _downloading = FALSE
    /\ _download_cancel = FALSE
    /\ _download_executor = <<>>
    /\ dl_signals = <<>>
    /\ out_dir = EmptyFiles
    /\ dl_log = <<>>

\* a thread that is not inside wait()
IdleCaller == [pc |-> "idle", now |-> 0, wake_at |-> 0, seq |-> 0, called |-> 0, slept |-> FALSE]

\* RateLimiter.__init__, with n threads that may call wait(); the clock reads
\* a time after the epoch
Limiter(n) ==
    /\ _next_allowed = 0
    /\ _lock = 0
    /\ clock = 1
    /\ rl_threads = [t \in 1..n |-> IdleCaller]
    /\ rl_returns = <<>>

\* nobody calls API_LIMITER.wait()
LimiterIdle == Limiter(0)

\* a project opened on the files of an earlier session
OpenProject(cat, fts, fs, meta_files, image_files) ==
    /\ catalog = cat
    /\ faults = fts
    /\ events = 0
    /\ cache_meta \in meta_files
    /\ cache_images \in image_files
    /\ \E f \in fs :
         Constructed(Blank(0, f, <<>>), goto_index(Blank(0, f, <<>>), 0, TRUE))

InitWindow(cat, fts, fs, meta_files, image_files) ==
    /\ OpenProject(cat, fts, fs, meta_files, image_files)
    /\ DownloadIdle
    /\ LimiterIdle

\* every image of every list the catalog can answer with
AllImagePaths ==
    {image_cache_path(kind, card, sig, idx) :
        kind \in {"small", "normal"}, card \in Cards, sig \in Sigs,
        idx \in 0..(AUTO_RELAX_BELOW - 1)}

WarmImages == [p \in AllImagePaths |-> GoodBytes]

\* ---- the metadata side: the image cache is warm, the metadata cache is
\* empty or holds one list of an earlier session

Init ==
    InitWindow({PrintList(0), PrintList(1), PrintList(AUTO_RELAX_BELOW)},
               {"fetch"},
               {DEFAULT_FILTERS},
               {meta_cache_path(Deck[2], filters_signature(DEFAULT_FILTERS))
                    :> JsonDump(PrintList(1))},
               {WarmImages})

Next ==
    \/ \E idx \in 0..(Len(Deck) - 1) : GotoIndex(idx)
    \/ \E f \in FilterConfigs : ApplyFilters(f)
    \/ ToggleAllPrints
    \/ \E i \in DOMAIN _meta_executor :
         \/ MetaFetch(i)
         \/ MetaFallback(i)
         \/ MetaWrite(i)
         \/ OnMetaReady(i)
         \/ OnMetaError(i)

Spec == Init /\ [][Next]_vars

-----------------------------------------------------------------------------
(* The image side: the first card's list under the default filters is in the
   metadata cache of an earlier session, nothing else is, and the images of
   one kind are missing from the image cache, so that each refresh of that
   card submits image loads of that kind.  The other card and the other
   signatures stay unresolved, so that a change of card or of signature
   leaves the tokens as they are. *)

\* the metadata cache holding the list `prints' for the first card
FirstCardMeta(prints) ==
    meta_cache_path(Deck[1], filters_signature(DEFAULT_FILTERS)) :> JsonDump(prints)

\* the image cache holding every image of kind `kind'
WarmKind(kind) == [p \in {q \in AllImagePaths : q[1] = kind} |-> GoodBytes]

\* either the previews are missing and the card has two printings, or the
\* thumbnails are missing and it has one
InitImg ==
    \/ InitWindow({PrintList(2)}, {"image_fetch", "bad_bytes"}, {DEFAULT_FILTERS},
                  {FirstCardMeta(PrintList(2))}, {WarmKind("small")})
    \/ InitWindow({PrintList(1)}, {"image_fetch", "bad_bytes"}, {DEFAULT_FILTERS},
                  {FirstCardMeta(PrintList(1))}, {WarmKind("normal")})

NextImg ==
    \/ \E idx \in 0..(Len(Deck) - 1) : GotoIndex(idx)
    \/ ToggleAllPrints
    \/ \E delta \in {-1, 1} : ShiftPrinting(delta)
    \/ \E idx \in 0..1 : ThumbClicked(idx)
    \/ \E i \in DOMAIN _image_executor :
         \/ ImageFetch(i)
         \/ OnImageBytesReady(i)
         \/ OnImageError(i)

SpecImg == InitImg /\ [][NextImg]_vars

-----------------------------------------------------------------------------
(* The preload side: the second card's list is in the metadata cache, none of
   its images is in the image cache; the first card is unresolved.  Every
   visit of the first card preloads the second. *)

SecondCardMeta(prints) ==
    meta_cache_path(Deck[2], filters_signature(DEFAULT_FILTERS)) :> JsonDump(prints)

InitPre ==
    InitWindow({PrintList(1)}, {}, {DEFAULT_FILTERS},
               {SecondCardMeta(PrintList(1))}, {EmptyFiles})

NextPre ==
    \/ \E idx \in 0..(Len(Deck) - 1) : GotoIndex(idx)
    \/ \E j \in DOMAIN _preload_executor :
         \/ PreloadRead(j)
         \/ PreloadPrefetch(j)
    \/ \E i \in DOMAIN _image_executor :
         \/ ImageFetch(i)
         \/ OnImageBytesReady(i)

SpecPre == InitPre /\ [][NextPre]_vars

-----------------------------------------------------------------------------
(* RateLimiter.wait: any number of threads call it; the clock advances in
   ticks between any two steps.  min_interval is 0.12 s, two ticks here. *)

MinInterval == 2

\* the threads that may call wait(), the calls of a run, the horizon
NumCallers == 2
MaxCalls == 3
MaxClock == 5

\* the calls made so far
Calls == Len(rl_returns) + Cardinality({t \in DOMAIN rl_threads : rl_threads[t].pc # "idle"})

\* line 134-135: how long wait() sleeps for the reading `now'
SleepTime_never(now, next_allowed) == 0

SleepTime(now, next_allowed) ==
    IF now < next_allowed THEN next_allowed - now ELSE 0

\* wait() is called: `with self._lock' takes the lock if it is free
Call(t) ==
    /\ rl_threads[t].pc = "idle"
    /\ Calls < MaxCalls
    /\ rl_threads' = [rl_threads EXCEPT ![t] =
           [IdleCaller EXCEPT !.pc = IF _lock = 0 THEN "now" ELSE "lock",
                              !.seq = Calls + 1, !.called = clock]]
    /\ _lock' = IF _lock = 0 THEN t ELSE _lock
    /\ UNCHANGED << _next_allowed, clock, rl_returns >>
    /\ UNCHANGED << uiVars, diskVars, envVars, events, dlVars, last >>

\* a blocked caller gets the lock that was released
Acquire(t) ==
    /\ rl_threads[t].pc = "lock"
    /\ _lock = 0
    /\ _lock' = t
    /\ rl_threads' = [rl_threads EXCEPT ![t].pc = "now"]
    /\ UNCHANGED << _next_allowed, clock, rl_returns >>
    /\ UNCHANGED << uiVars, diskVars, envVars, events, dlVars, last >>

\* now = time.time()
ReadNow(t) ==
    /\ rl_threads[t].pc = "now"
    /\ rl_threads' = [rl_threads EXCEPT ![t].now = clock, ![t].pc = "test"]
    /\ UNCHANGED << _next_allowed, _lock, clock, rl_returns >>
    /\ UNCHANGED << uiVars, diskVars, envVars, events, dlVars, last >>

\* if now < self._next_allowed: time.sleep(self._next_allowed - now) begins
Sleep(t) ==
    /\ rl_threads[t].pc = "test"
    /\ LET d == SleepTime(rl_threads[t].now, _next_allowed)
       IN  rl_threads' = [rl_threads EXCEPT ![t] =
               IF d > 0
               THEN [@ EXCEPT !.pc = "sleep", !.wake_at = clock + d, !.slept = TRUE]
               ELSE [@ EXCEPT !.pc = "set"]]
    /\ UNCHANGED << _next_allowed, _lock, clock, rl_returns >>
    /\ UNCHANGED << uiVars, diskVars, envVars, events, dlVars, last >>

\* time.sleep returns, no sooner than asked
Wake(t) ==
    /\ rl_threads[t].pc = "sleep"
    /\ clock >= rl_threads[t].wake_at
    /\ rl_threads' = [rl_threads EXCEPT ![t].pc = "set"]
    /\ UNCHANGED << _next_allowed, _lock, clock, rl_returns >>
    /\ UNCHANGED << uiVars, diskVars, envVars, events, dlVars, last >>

\* self._next_allowed = time.time() + self.min_interval; the lock is released
\* and wait() returns.  The return is taken at the instant of this reading
\* of the clock.
Return(t) ==
    /\ rl_threads[t].pc = "set"
    /\ _next_allowed' = clock + MinInterval
    /\ _lock' = 0
    /\ rl_returns' = Append(rl_returns,
           [thread |-> t, at |-> clock, seq |-> rl_threads[t].seq,
            called |-> rl_threads[t].called, slept |-> rl_threads[t].slept])
    /\ rl_threads' = [rl_threads EXCEPT ![t] = IdleCaller]
    /\ UNCHANGED clock
    /\ UNCHANGED << uiVars, diskVars, envVars, events, dlVars, last >>

\* time passes
Tick ==
    /\ clock < MaxClock
    /\ clock' = clock + 1
    /\ UNCHANGED << _next_allowed, _lock, rl_threads, rl_returns >>
    /\ UNCHANGED << uiVars, diskVars, envVars, events, dlVars, last >>

InitRL ==
    /\ OpenProject({PrintList(1)}, {}, {DEFAULT_FILTERS}, {EmptyFiles}, {EmptyFiles})
    /\ DownloadIdle
    /\ Limiter(NumCallers)

NextRL ==
    \/ Tick
    \/ \E t \in DOMAIN rl_threads :
         \/ Call(t)
         \/ Acquire(t)
         \/ ReadNow(t)
         \/ Sleep(t)
         \/ Wake(t)
         \/ Return(t)

SpecRL == InitRL /\ [][NextRL]_vars

-----------------------------------------------------------------------------
(* The disk cache on its own: puts under keys whose card names differ only in
   a character that safe_filename replaces. *)

CacheCards == {<<"a", "/", "b">>, <<"a", "_", "b">>}
CacheSigs == {filters_signature(DEFAULT_FILTERS), "ALL"}
CacheKinds == {"small", "normal"}
CacheIdxs == {0, 1}

\* a put, and the files it was made on
CacheObservation(op, kind, card, sig, idx, value, ok) ==
    [op |-> op, kind |-> kind, card |-> card, sig |-> sig, idx |-> idx,
     value |-> value, ok |-> ok,
     meta_before |-> cache_meta, images_before |-> cache_images]

SetCachedMeta(card, sig, printings) ==
    /\ events < MaxEvents
    /\ events' = events + 1
    /\ \E ok \in WriteOutcomes("meta_write") :
         /\ cache_meta' = set_cached_meta(cache_meta, card, sig, printings, ok)
         /\ last' = CacheObservation("set_cached_meta", "", card, sig, 0, printings, ok)
    /\ UNCHANGED << uiVars, cache_images, envVars, dlVars, rlVars >>

SetCachedImageBytes(kind, card, sig, idx, data) ==
    /\ events < MaxEvents
    /\ events' = events + 1
    /\ \E ok \in WriteOutcomes("image_write") :
         /\ cache_images' = set_cached_image_bytes(cache_images, kind, card, sig, idx, data, ok)
         /\ last' = CacheObservation("set_cached_image_bytes", kind, card, sig, idx, data, ok)
    /\ UNCHANGED << uiVars, cache_meta, envVars, dlVars, rlVars >>

\* the cache is empty, or holds a list for "a_b" of an earlier session
InitCache ==
    InitWindow({PrintList(1)}, {"meta_write", "image_write"}, {DEFAULT_FILTERS},
               {EmptyFiles, meta_cache_path(<<"a", "_", "b">>, "ALL") :> JsonDump(PrintList(2))},
               {EmptyFiles})

NextCache ==
    \/ \E card \in CacheCards, sig \in CacheSigs, n \in 1..2 :
         SetCachedMeta(card, sig, PrintList(n))
    \/ \E kind \in CacheKinds, card \in CacheCards, sig \in CacheSigs,
          idx \in CacheIdxs, data \in {GoodBytes, BadBytes} :
         SetCachedImageBytes(kind, card, sig, idx, data)

SpecCache == InitCache /\ [][NextCache]_vars

-----------------------------------------------------------------------------
(* Batch download: download_prompt, its worker and the delivery of its
   signals *)

\* an entry of project.selections: the card and the fields of its dict that
\* the worker reads; a missing URL is None
NoUrl == ""
Selection(card, set, collector, png_url, large_url) ==
    [card |-> card, set |-> set, collector |-> collector,
     png_url |-> png_url, large_url |-> large_url]

\* project.card_qty
card_qty == (<<"A">> :> 2)

\* int(self.project.card_qty.get(card, 1))
Qty(card) == IF card \in DOMAIN card_qty THEN card_qty[card] ELSE 1

\* str(n), for the copy numbers of the model
Str(n) == CASE n = 1 -> "1" [] n = 2 -> "2" [] n = 3 -> "3"

\* url = sel.get("png_url") or sel.get("large_url")
Url(sel) == IF sel.png_url # NoUrl THEN sel.png_url ELSE sel.large_url

\* ext = ".png" if sel.get("png_url") else ".jpg"
Ext(sel) == IF sel.png_url # NoUrl THEN ".png" ELSE ".jpg"

\* dest: safe_filename(f"{card}{suffix} [{set} {collector}]") + ext
Dest(sel, copy_idx) ==
    LET suffix == IF Qty(sel.card) > 1 THEN <<" ", "(", Str(copy_idx), ")">> ELSE <<>>
    IN  safe_filename(sel.card \o suffix \o <<" ", "[">> \o sel.set \o <<" ">>
                          \o sel.collector \o <<"]">>) \o <<Ext(sel)>>

\* a file of the download folder: the bytes of a URL, all of them or a
\* beginning of them
Downloaded(url) == [url |-> url, complete |-> TRUE]
CutOff(url) == [url |-> url, complete |-> FALSE]

\* `if dest.exists(): continue' negated
NeedsFetch_always(files, dest) == TRUE

NeedsFetch(files, dest) == dest \notin DOMAIN files

\* an exception leaves the loop for the except clause
Raise_and_go_on(job) == [job EXCEPT !.copy = @ + 1, !.pc = "copy"]

Raise(job) == [job EXCEPT !.pc = "raise"]

DownloadJob(items) == [items |-> items, i |-> 1, copy |-> 1, pc |-> "item"]
DownloadRunning == {"item", "copy", "get", "write", "raise"}

\* an entry of the observation of the running batch
Logged(type, i, dest, ok) == [type |-> type, i |-> i, dest |-> dest, ok |-> ok]

\* a signal is emitted: queued for the consumer, and observed
Emit(type, value) ==
    /\ dl_signals' = Append(dl_signals, [type |-> type, value |-> value])
    /\ dl_log' = Append(dl_log, Logged(type, value, <<>>, TRUE))

\* a download_prompt that does not look at the downloading flag
AlreadyDownloading_never == FALSE

\* if self._downloading: the message box, and return
AlreadyDownloading == _downloading

\* download_prompt, the user agreeing to download what is selected
DownloadPrompt ==
    /\ events < MaxEvents
    /\ ~AlreadyDownloading
    /\ selections # <<>>
    /\ events' = events + 1
    /\ _downloading' = TRUE
    /\ _download_cancel' = FALSE
    /\ _download_executor' = Append(_download_executor, DownloadJob(selections))
    /\ dl_log' = <<>>
    /\ UNCHANGED << selections, undo_stack, dl_signals, out_dir >>
    /\ UNCHANGED << uiVars, diskVars, envVars, rlVars, last >>

\* the Cancel button of the progress dialog
\* what the batch had done, and where its worker was, when Cancel was pressed
CancelObservation ==
    [NoObservation EXCEPT
        !.op = "cancel_download",
        !.value = dl_log,
        !.eff = {_download_executor[k].pc : k \in DOMAIN _download_executor},
        !.key = [NoKey EXCEPT !.idx = IF _download_executor = <<>> THEN 0
                                      ELSE _download_executor[1].i]]

CancelDownload ==
    /\ _downloading
    /\ ~_download_cancel
    /\ _download_cancel' = TRUE
    /\ last' = CancelObservation
    /\ UNCHANGED << selections, undo_stack, _downloading, _download_executor, dl_signals, out_dir, dl_log >>
    /\ UNCHANGED << uiVars, diskVars, envVars, events, rlVars >>

\* the head of the loop over the items: the loop is over or cancelled (done
\* is emitted and the job ends), the item has no URL (progress), or its
\* copies are gone through
\* a loop that does not look at the cancel flag
LoopEnds_ignoring_cancel(job, cancel) == job.i > Len(job.items)

\* the for loop is exhausted, or `if self._download_cancel.is_set(): break'
LoopEnds(job, cancel) == job.i > Len(job.items) \/ cancel

DlItem(k) ==
    /\ k \in Running(_download_executor, DownloadRunning, DOWNLOAD_WORKERS)
    /\ _download_executor[k].pc = "item"
    /\ LET job == _download_executor[k]
       IN  IF LoopEnds(job, _download_cancel)
           THEN /\ Emit("done", 0)
                /\ _download_executor' = RemoveAt(_download_executor, k)
           ELSE IF Url(job.items[job.i]) = NoUrl
           THEN /\ Emit("progress", job.i)
                /\ _download_executor' = [_download_executor EXCEPT ![k].i = @ + 1]
           ELSE /\ _download_executor' =
                       [_download_executor EXCEPT ![k].copy = 1, ![k].pc = "copy"]
                /\ UNCHANGED << dl_signals, dl_log >>
    /\ UNCHANGED << selections, undo_stack, _downloading, _download_cancel, out_dir >>
    /\ UNCHANGED << uiVars, diskVars, envVars, events, rlVars, last >>

\* the head of the loop over the copies: the copies are done (progress), the
\* file of this copy exists (skipped), or it is to be fetched
DlCopy(k) ==
    /\ k \in Running(_download_executor, DownloadRunning, DOWNLOAD_WORKERS)
    /\ _download_executor[k].pc = "copy"
    /\ LET job == _download_executor[k]
           sel == job.items[job.i]
       IN  IF job.copy > Qty(sel.card)
           THEN /\ Emit("progress", job.i)
                /\ _download_executor' =
                       [_download_executor EXCEPT ![k].i = @ + 1, ![k].pc = "item"]
           ELSE IF NeedsFetch(out_dir, Dest(sel, job.copy))
           THEN /\ _download_executor' = [_download_executor EXCEPT ![k].pc = "get"]
                /\ UNCHANGED << dl_signals, dl_log >>
           ELSE /\ _download_executor' = [_download_executor EXCEPT ![k].copy = @ + 1]
                /\ dl_log' = Append(dl_log, Logged("skip", job.i, Dest(sel, job.copy), TRUE))
                /\ UNCHANGED dl_signals
    /\ UNCHANGED << selections, undo_stack, _downloading, _download_cancel, out_dir >>
    /\ UNCHANGED << uiVars, diskVars, envVars, events, rlVars, last >>

\* r = sess.get(url, ...); r.raise_for_status()
DlGet(k) ==
    /\ k \in Running(_download_executor, DownloadRunning, DOWNLOAD_WORKERS)
    /\ _download_executor[k].pc = "get"
    /\ LET job == _download_executor[k]
           dest == Dest(job.items[job.i], job.copy)
       IN  \E ok \in WriteOutcomes("dl_get") :
             /\ dl_log' = Append(dl_log,
                    Logged(IF dest \in DOMAIN out_dir THEN "get_existing" ELSE "get",
                           job.i, dest, ok))
             /\ _download_executor' = [_download_executor EXCEPT ![k] =
                    IF ok THEN [job EXCEPT !.pc = "write"] ELSE Raise(job)]
    /\ UNCHANGED << selections, undo_stack, _downloading, _download_cancel, dl_signals, out_dir >>
    /\ UNCHANGED << uiVars, diskVars, envVars, events, rlVars, last >>

\* open(dest, "wb") and the chunks of the response: all of them are written,
\* or the stream breaks and the file keeps what was written
DlWrite(k) ==
    /\ k \in Running(_download_executor, DownloadRunning, DOWNLOAD_WORKERS)
    /\ _download_executor[k].pc = "write"
    /\ LET job == _download_executor[k]
           sel == job.items[job.i]
           dest == Dest(sel, job.copy)
       IN  \E ok \in WriteOutcomes("dl_stream") :
             IF ok
             THEN /\ out_dir' = Put(out_dir, dest, Downloaded(Url(sel)))
                  /\ _download_executor' =
                         [_download_executor EXCEPT ![k].copy = @ + 1, ![k].pc = "copy"]
                  /\ UNCHANGED dl_log
             ELSE /\ out_dir' = Put(out_dir, dest, CutOff(Url(sel)))
                  /\ _download_executor' = [_download_executor EXCEPT ![k] = Raise(job)]
                  /\ dl_log' = Append(dl_log, Logged("cut", job.i, dest, FALSE))
    /\ UNCHANGED << selections, undo_stack, _downloading, _download_cancel, dl_signals >>
    /\ UNCHANGED << uiVars, diskVars, envVars, events, rlVars, last >>

\* except Exception: pass
DlExcept_silent(k) ==
    /\ k \in Running(_download_executor, DownloadRunning, DOWNLOAD_WORKERS)
    /\ _download_executor[k].pc = "raise"
    /\ _download_executor' = RemoveAt(_download_executor, k)
    /\ UNCHANGED << selections, undo_stack, _downloading, _download_cancel, out_dir, dl_signals, dl_log >>
    /\ UNCHANGED << uiVars, diskVars, envVars, events, rlVars, last >>

\* except Exception as e: self.dl_signals.error.emit(str(e))
DlExcept(k) ==
    /\ k \in Running(_download_executor, DownloadRunning, DOWNLOAD_WORKERS)
    /\ _download_executor[k].pc = "raise"
    /\ Emit("error", 0)
    /\ _download_executor' = RemoveAt(_download_executor, k)
    /\ UNCHANGED << selections, undo_stack, _downloading, _download_cancel, out_dir >>
    /\ UNCHANGED << uiVars, diskVars, envVars, events, rlVars, last >>

\* the queued signals reach the consumer in the order of their emission
OnDownloadProgress ==
    /\ dl_signals # <<>>
    /\ Head(dl_signals).type = "progress"
    /\ dl_signals' = Tail(dl_signals)
    /\ UNCHANGED << selections, undo_stack, _downloading, _download_cancel, _download_executor, out_dir, dl_log >>
    /\ UNCHANGED << uiVars, diskVars, envVars, events, rlVars, last >>

OnDownloadDone ==
    /\ dl_signals # <<>>
    /\ Head(dl_signals).type = "done"
    /\ dl_signals' = Tail(dl_signals)
    /\ _downloading' = FALSE
    /\ UNCHANGED << selections, undo_stack, _download_cancel, _download_executor, out_dir, dl_log >>
    /\ UNCHANGED << uiVars, diskVars, envVars, events, rlVars, last >>

OnDownloadError ==
    /\ dl_signals # <<>>
    /\ Head(dl_signals).type = "error"
    /\ dl_signals' = Tail(dl_signals)
    /\ _downloading' = FALSE
    /\ UNCHANGED << selections, undo_stack, _download_cancel, _download_executor, out_dir, dl_log >>
    /\ UNCHANGED << uiVars, diskVars, envVars, events, rlVars, last >>

\* three selected cards: two copies of a PNG, a JPEG, and a selection that
\* has no URL
Batch ==
    << Selection(<<"A">>, <<"S">>, <<"1">>, "png_A", "large_A"),
       Selection(<<"B">>, <<"S">>, <<"2">>, NoUrl, "large_B"),
       Selection(<<"C">>, <<"S">>, <<"3">>, NoUrl, NoUrl) >>

\* the download folder is empty, or an earlier batch has left the second
\* card's file, or the first copy of the first card's
InitDL ==
    /\ OpenProject({PrintList(1)}, {"dl_get", "dl_stream"}, {DEFAULT_FILTERS},
                   {EmptyFiles}, {EmptyFiles})
    /\ LimiterIdle
    /\ selections = Batch
    /\ undo_stack = <<>>
    /\ _downloading = FALSE
    /\ _download_cancel = FALSE
    /\ _download_executor = <<>>
    /\ dl_signals = <<>>
    /\ dl_log = <<>>
    /\ out_dir \in {EmptyFiles,
                    Dest(Batch[2], 1) :> Downloaded("large_B"),
                    Dest(Batch[1], 1) :> Downloaded("png_A")}

NextDL ==
    \/ DownloadPrompt
    \/ CancelDownload
    \/ OnDownloadProgress
    \/ OnDownloadDone
    \/ OnDownloadError
    \/ \E k \in DOMAIN _download_executor :
         \/ DlItem(k)
         \/ DlCopy(k)
         \/ DlGet(k)
         \/ DlWrite(k)
         \/ DlExcept(k)

SpecDL == InitDL /\ [][NextDL]_vars

\* a step of the worker of the batch
DownloadStep ==
    \E k \in DOMAIN _download_executor :
        DlItem(k) \/ DlCopy(k) \/ DlGet(k) \/ DlWrite(k) \/ DlExcept(k)

\* a step of the worker at the head of its loop or in its except clause
DownloadLoopStep ==
    \E k \in DOMAIN _download_executor : DlItem(k) \/ DlExcept(k)

\* the thread of the download pool keeps running its job, and every network
\* call returns or raises (the requests have timeouts): WF_vars(DownloadStep),
\* with its enabling condition, a job in the pool, written out
FairDownload == []<>(_download_executor = <<>>) \/ []<><<DownloadStep>>_vars

SpecDLFair == InitDL /\ [][NextDL]_vars /\ WF_vars(DownloadLoopStep) /\ FairDownload

-----------------------------------------------------------------------------
(* Selections and undo *)

UNDO_STACK_LIMIT == 50

\* the state of a handler that changes the selections or the undo stack
Picking(s, sel, stack) == [s |-> s, sel |-> sel, stack |-> stack]

\* _push_undo: snap is (current_index, dict(selections), dict(active_printing_index))
_push_undo(stack, idx, sel, active) ==
    LET snap == [idx |-> idx, sel |-> sel, active |-> active]
        pushed == Append(stack, snap)
    IN  IF stack # <<>> /\ stack[Len(stack)] = snap
        THEN stack
        ELSE IF Len(pushed) > UNDO_STACK_LIMIT
        THEN SubSeq(pushed, Len(pushed) - UNDO_STACK_LIMIT + 1, Len(pushed))
        ELSE pushed

\* self.project.selections[card] = {...}: an item of the dict keeps its
\* place, a new one goes to the end
SetSelection(sel, item) ==
    IF \E i \in DOMAIN sel : sel[i].card = item.card
    THEN [i \in DOMAIN sel |-> IF sel[i].card = item.card THEN item ELSE sel[i]]
    ELSE Append(sel, item)

\* del self.project.selections[card]
DelSelection(sel, card) == RemoveAt(sel, CHOOSE i \in DOMAIN sel : sel[i].card = card)

\* select_current_printing that takes no snapshot
select_current_printing_without_snapshot(s, sel, stack, advance) ==
    LET card == current_card(s)
        prints == meta_get(s, card, effective_sig_for_card(s, card))
        aidx == active_printing_idx(s, card)
    IN  IF prints = <<>>
        THEN Picking(s, sel, stack)
        ELSE IF aidx >= Len(prints)
        THEN Picking([s EXCEPT !.raised = TRUE], sel, stack)
        ELSE Picking(IF advance
                     THEN goto_index(refresh_card_ui(s, card), s.current_index + 1, FALSE)
                     ELSE refresh_card_ui(s, card),
                     SetSelection(sel, Selection(card, prints[aidx + 1].set_code,
                                                 prints[aidx + 1].collector_number,
                                                 prints[aidx + 1].image_png,
                                                 prints[aidx + 1].image_large)),
                     stack)

\* select_current_printing; prints[aidx] raises IndexError when the active
\* index is beyond the list
select_current_printing(s, sel, stack, advance) ==
    LET card == current_card(s)
        prints == meta_get(s, card, effective_sig_for_card(s, card))
        aidx == active_printing_idx(s, card)
    IN  IF prints = <<>>
        THEN Picking(s, sel, stack)
        ELSE IF aidx >= Len(prints)
        THEN Picking([s EXCEPT !.raised = TRUE], sel, stack)
        ELSE Picking(IF advance
                     THEN goto_index(refresh_card_ui(s, card), s.current_index + 1, FALSE)
                     ELSE refresh_card_ui(s, card),
                     SetSelection(sel, Selection(card, prints[aidx + 1].set_code,
                                                 prints[aidx + 1].collector_number,
                                                 prints[aidx + 1].image_png,
                                                 prints[aidx + 1].image_large)),
                     _push_undo(stack, s.current_index, sel, s.active_printing_index))

clear_selection(s, sel, stack) ==
    LET card == current_card(s)
    IN  IF \E i \in DOMAIN sel : sel[i].card = card
        THEN Picking(refresh_card_ui(s, card), DelSelection(sel, card),
                     _push_undo(stack, s.current_index, sel, s.active_printing_index))
        ELSE Picking(s, sel, stack)

undo(s, sel, stack) ==
    IF stack = <<>>
    THEN Picking(s, sel, stack)
    ELSE LET snap == stack[Len(stack)]
         IN  Picking(goto_index([s EXCEPT !.active_printing_index = snap.active,
                                          !.current_index = snap.idx],
                                snap.idx, TRUE),
                     snap.sel,
                     SubSeq(stack, 1, Len(stack) - 1))

\* a handler of this section ran from the window s0 to the state r, as the
\* next of at most `budget' events
Picked(op, budget, s0, r) ==
    /\ events < budget
    /\ events' = events + 1
    /\ Handle(op, current_card(s0), effective_sig_for_card(s0, current_card(s0)),
              NoKey, s0, r.s)
    /\ selections' = r.sel
    /\ undo_stack' = r.stack
    /\ UNCHANGED << _downloading, _download_cancel, _download_executor,
                    dl_signals, out_dir, dl_log >>
    /\ UNCHANGED << diskVars, envVars, rlVars >>

\* Enter (advance) / S: select_and_next, select_current_printing(False)
SelectCurrentPrinting(advance, budget) ==
    Picked("select_current_printing", budget, State,
           select_current_printing(State, selections, undo_stack, advance))

\* C: clear_selection
ClearSelection(budget) ==
    Picked("clear_selection", budget, State, clear_selection(State, selections, undo_stack))

\* Ctrl+Z: undo
Undo(budget) ==
    Picked("undo", budget, State, undo(State, selections, undo_stack))

\* ---- picking printings: the image side, with the selection keys and undo.
\* The first card has two printings, its thumbnails are in the image cache
\* and its previews are fetched.

InitPick ==
    InitWindow({PrintList(2)}, {}, {DEFAULT_FILTERS},
               {FirstCardMeta(PrintList(2))}, {WarmKind("small")})

NextPick ==
    \/ \E idx \in 0..(Len(Deck) - 1) : GotoIndex(idx)
    \/ \E f \in FilterConfigs : ApplyFilters(f)
    \/ ToggleAllPrints
    \/ \E delta \in {-1, 1} : ShiftPrinting(delta)
    \/ \E idx \in 0..1 : ThumbClicked(idx)
    \/ \E advance \in BOOLEAN : SelectCurrentPrinting(advance, MaxEvents + 1)
    \/ ClearSelection(MaxEvents + 1)
    \/ Undo(MaxEvents + 1)
    \/ \E i \in DOMAIN _image_executor :
         \/ ImageFetch(i)
         \/ OnImageBytesReady(i)

SpecPick == InitPick /\ [][NextPick]_vars

\* ---- the thumbnail strip: the first card has two printings, its previews
\* are in the image cache and its thumbnails are fetched.

InitStrip ==
    InitWindow({PrintList(2)}, {}, {DEFAULT_FILTERS},
               {FirstCardMeta(PrintList(2))}, {WarmKind("normal")})

NextStrip ==
    \/ \E idx \in 0..(Len(Deck) - 1) : GotoIndex(idx)
    \/ ToggleAllPrints
    \/ \E idx \in 0..1 : ThumbClicked(idx)
    \/ \E advance \in BOOLEAN : SelectCurrentPrinting(advance, MaxEvents)
    \/ \E i \in DOMAIN _image_executor :
         \/ ImageFetch(i)
         \/ OnImageBytesReady(i)

SpecStrip == InitStrip /\ [][NextStrip]_vars

\* ---- undo: a project of an earlier session is opened.  Its project file
\* holds no active printing or one beyond the first card's list (the list was
\* longer when the index was saved); selections.json holds no selection or
\* one of the first card; the metadata cache holds the first card's list or
\* nothing.  The lists are too long for the automatic relaxation.

\* the snapshots taken in a run: enough to fill the stack and push once more
MaxPicks == UNDO_STACK_LIMIT + 2

FullList == PrintList(AUTO_RELAX_BELOW)

InitUndo ==
    /\ catalog = {FullList}
    /\ faults = {}
    /\ events = 0
    /\ cache_meta \in {EmptyFiles, FirstCardMeta(FullList)}
    /\ cache_images = WarmImages
    /\ \E active \in {<<>>, Deck[1] :> AUTO_RELAX_BELOW} :
         Constructed(Blank(0, DEFAULT_FILTERS, active),
                     goto_index(Blank(0, DEFAULT_FILTERS, active), 0, TRUE))
    /\ selections \in {<<>>, << Selection(Deck[1], "SET", 1, "png", "large") >>}
    /\ undo_stack = <<>>
    /\ _downloading = FALSE
    /\ _download_cancel = FALSE
    /\ _download_executor = <<>>
    /\ dl_signals = <<>>
    /\ out_dir = EmptyFiles
    /\ dl_log = <<>>
    /\ LimiterIdle

\* The first events of a run are any of the operations, in any order with
\* the steps of the metadata pool; once the pool is idle the run goes on with
\* the selections and clearings that take a snapshot until the stack is full,
\* and undoes again on the full stack.
PickBudget == IF _meta_executor = <<>> THEN MaxPicks ELSE MaxEvents + 1

UndoBudget == IF Len(undo_stack) = UNDO_STACK_LIMIT THEN MaxPicks ELSE MaxEvents + 1

FillStack ==
    /\ \/ SelectCurrentPrinting(FALSE, PickBudget)
       \/ ClearSelection(PickBudget)
    /\ undo_stack' # undo_stack

NextUndo ==
    \/ \E advance \in BOOLEAN : SelectCurrentPrinting(advance, MaxEvents + 1)
    \/ ClearSelection(MaxEvents + 1)
    \/ FillStack
    \/ Undo(UndoBudget)
    \/ \E i \in DOMAIN _meta_executor :
         \/ MetaFetch(i)
         \/ MetaWrite(i)
         \/ OnMetaReady(i)

SpecUndo == InitUndo /\ [][NextUndo]_vars

-----------------------------------------------------------------------------
(* A metadata cache with a file that does not parse: an earlier session was
   stopped while it wrote the second card's list. *)

InitCorrupt ==
    InitWindow({PrintList(AUTO_RELAX_BELOW)}, {}, {DEFAULT_FILTERS},
               {meta_cache_path(Deck[2], filters_signature(DEFAULT_FILTERS)) :> BadJson},
               {WarmImages})

NextCorrupt ==
    \/ \E idx \in 0..(Len(Deck) - 1) : GotoIndex(idx)
    \/ \E f \in FilterConfigs : ApplyFilters(f)
    \/ \E i \in DOMAIN _meta_executor :
         \/ MetaFetch(i)
         \/ MetaWrite(i)
         \/ OnMetaReady(i)

SpecCorrupt == InitCorrupt /\ [][NextCorrupt]_vars

-----------------------------------------------------------------------------
(* A disk that may refuse a write: the metadata cache is empty and the image
   cache holds the thumbnails only, every list has one printing, and each
   write of a job either succeeds or fails. *)

InitWrite ==
    InitWindow({PrintList(1)}, {"meta_write", "image_write"}, {DEFAULT_FILTERS},
               {EmptyFiles}, {WarmKind("small")})

NextWrite ==
    \/ \E idx \in 0..(Len(Deck) - 1) : GotoIndex(idx)
    \/ \E i \in DOMAIN _meta_executor :
         \/ MetaFetch(i)
         \/ MetaFallback(i)
         \/ MetaWrite(i)
         \/ OnMetaReady(i)
    \/ \E i \in DOMAIN _image_executor :
         \/ ImageFetch(i)
         \/ OnImageBytesReady(i)

SpecWrite == InitWrite /\ [][NextWrite]_vars

-----------------------------------------------------------------------------
(* Loaded pools.  Either nothing of the metadata is cached and the first
   card's list is asked for under three signatures, or the first card's
   lists are cached, the one under the default filters with five printings
   and without its thumbnails, so that every rebuild of the strip submits
   five loads. *)

\* the metadata cache of the first card: `prints' under the default filters,
\* no printing under the other signatures
FirstCardAllSigs(prints) ==
    [p \in {meta_cache_path(Deck[1], sig) : sig \in Sigs} |->
        IF p = meta_cache_path(Deck[1], filters_signature(DEFAULT_FILTERS))
        THEN JsonDump(prints) ELSE JsonDump(PrintList(0))]

InitPools ==
    \/ InitWindow({PrintList(AUTO_RELAX_BELOW)}, {}, {DEFAULT_FILTERS},
                  {EmptyFiles}, {WarmImages})
    \/ InitWindow({PrintList(0)}, {}, {DEFAULT_FILTERS},
                  {FirstCardAllSigs(PrintList(AUTO_RELAX_BELOW))}, {WarmKind("normal")})

NextPools ==
    \/ \E f \in FilterConfigs : ApplyFilters(f)
    \/ ToggleAllPrints
    \/ \E i \in DOMAIN _meta_executor :
         \/ MetaFetch(i)
         \/ MetaWrite(i)
         \/ OnMetaReady(i)
    \/ \E i \in DOMAIN _image_executor : ImageFetch(i)

SpecPools == InitPools /\ [][NextPools]_vars

-----------------------------------------------------------------------------
(* The workers of the metadata, preload and image pools together: the first
   card's images are cached, its list is not and is fetched; the second
   card's list is cached without its images, which are prefetched. *)

\* the image cache holding every image of `card'
WarmCard(card) ==
    [p \in {image_cache_path(kind, card, sig, idx) :
                kind \in {"small", "normal"}, sig \in Sigs,
                idx \in 0..(AUTO_RELAX_BELOW - 1)} |-> GoodBytes]

InitWorkers ==
    InitWindow({PrintList(AUTO_RELAX_BELOW)}, {}, {DEFAULT_FILTERS},
               {SecondCardMeta(PrintList(1))}, {WarmCard(Deck[1])})

NextWorkers ==
    \/ \E idx \in 0..(Len(Deck) - 1) : GotoIndex(idx)
    \/ \E i \in DOMAIN _meta_executor :
         \/ MetaFetch(i)
         \/ MetaWrite(i)
         \/ OnMetaReady(i)
    \/ \E j \in DOMAIN _preload_executor :
         \/ PreloadRead(j)
         \/ PreloadPrefetch(j)
    \/ \E i \in DOMAIN _image_executor : ImageFetch(i)

SpecWorkers == InitWorkers /\ [][NextWorkers]_vars

-----------------------------------------------------------------------------
(* The prefetch on its own: as the preload side, with fetches of images that
   may fail. *)

InitPrefetch ==
    InitWindow({PrintList(1)}, {"image_fetch"}, {DEFAULT_FILTERS},
               {SecondCardMeta(PrintList(1))}, {EmptyFiles})

NextPrefetch ==
    \/ \E idx \in 0..(Len(Deck) - 1) : GotoIndex(idx)
    \/ \E j \in DOMAIN _preload_executor :
         \/ PreloadRead(j)
         \/ PreloadPrefetch(j)
    \/ \E i \in DOMAIN _image_executor : ImageFetch(i)

SpecPrefetch == InitPrefetch /\ [][NextPrefetch]_vars

-----------------------------------------------------------------------------
(* Properties of the metadata side *)

\* the handlers that call ensure_meta
EnsureOps == {"goto_index", "_apply_filters_if_changed", "toggle_all_prints_for_current"}

\* the ensure_meta call of the last step got as far as the in-flight test
ReachedInFlightTest == ~last.was_mem /\ ~last.was_disk /\ ~last.raised

\* the jobs of the metadata pool that were submitted for a key and whose
\* result has not been handled yet
Outstanding(key) ==
    {i \in DOMAIN _meta_executor :
        << _meta_executor[i].card, _meta_executor[i].sig >> = key}

\* C1: for every (card, signature) key at most one metadata fetch is
\* outstanding at any time, and an ensure_meta for a key that is in the
\* in-flight set submits no job.
C1_DedupInvariant ==
    /\ \A card \in Cards, sig \in Sigs :
          Cardinality(Outstanding(<< card, sig >>)) <= 1
    /\ (last.op \in EnsureOps /\ last.was_inflight)
          => /\ last.meta_jobs_added = 0
             /\ "submit_meta" \notin last.eff

\* an ensure_meta found its key in flight, while a job for it is outstanding
C1_Witness ==
    /\ last.op \in EnsureOps
    /\ last.was_inflight
    /\ ReachedInFlightTest
    /\ Outstanding(<< last.card, last.sig >>) # {}

\* the token of the class (big preview or thumbnail strip) of an image key
ClassToken(key) == IF key.cls = "big" THEN _big_token ELSE _thumb_token

\* C2: an image result (bytes or error) changes the display only if, when it
\* is delivered, the token it was submitted with is the current token of its
\* class, its card is the current card and its signature is that card's
\* effective signature; a result whose class token was bumped since changes
\* nothing.
C2_StalenessInvariant ==
    last.op \in {"on_image_bytes_ready", "on_image_error"}
        => /\ last.applied
                => /\ last.key.tok = ClassToken(last.key)
                   /\ last.key.card = current_card(State)
                   /\ last.key.sig = effective_sig_for_card(State, last.key.card)
           /\ last.key.tok # ClassToken(last.key) => ~last.applied

\* a delivered image result was put on the display
C2_Witness ==
    /\ last.op \in {"on_image_bytes_ready", "on_image_error"}
    /\ last.applied
    /\ last.key.tok = ClassToken(last.key)
    /\ events > 0

\* C3: once the result of the job submitted for (card, sig) has been handled
\* (success of any kind, or error), (card, sig) is not in _fetching_meta.
C3_InFlightRemovedOnCompletion ==
    last.op \in {"on_meta_ready", "on_meta_error"}
        => << last.card, last.sig >> \notin _fetching_meta

\* C4: a job whose filtered fetch answered 1..4 printings and whose unfiltered
\* fetch answered a non-empty list delivers that list tagged "ALL" with
\* auto_relaxed set; once delivered the list is stored under (card, "ALL"),
\* the card's effective signature is "ALL", and a later ensure_meta for the
\* card, its override untouched, submits no job.
C4_AutoRelax ==
    /\ \A i \in DOMAIN _meta_executor :
          LET job == _meta_executor[i]
          IN  (/\ job.pc \in {"write", "ready"}
               /\ 0 < Len(job.filtered) /\ Len(job.filtered) < AUTO_RELAX_BELOW
               /\ job.fallback # <<>>)
                => /\ job.prints = job.fallback
                   /\ job.emit_sig = "ALL"
                   /\ job.auto_relaxed
    /\ (last.op = "on_meta_ready" /\ "auto_relaxed" \in last.eff)
          => /\ << last.card, "ALL" >> \in DOMAIN meta_by_key
             /\ meta_by_key[<< last.card, "ALL" >>] = last.value
             /\ effective_sig_for_card(State, last.card) = "ALL"
             /\ last.card \in _auto_relaxed_cards
    /\ (last.op \in {"goto_index", "_apply_filters_if_changed"} /\ last.was_relaxed)
          => /\ last.meta_jobs_added = 0
             /\ last.inflight_added = {}
             /\ last.sig = "ALL"

\* a handler called ensure_meta for a card that an earlier delivery relaxed
C4_Witness ==
    /\ last.op \in {"goto_index", "_apply_filters_if_changed"}
    /\ last.was_relaxed
    /\ last.was_mem
    /\ events > 0

\* C5: a prefetch_to_cache for an image that is in the disk cache submits no
\* job and fetches nothing from the network.
C5_PrefetchIdempotent ==
    (last.op = "prefetch_to_cache" /\ last.was_cached)
        => /\ last.image_jobs_added = 0
           /\ last.eff \cap {"submit_image", "net"} = {}
           /\ ~last.applied

\* the preload worker called prefetch_to_cache for a cached image, after an
\* earlier prefetch of the same card had fetched one
C5_Witness ==
    /\ last.op = "prefetch_to_cache"
    /\ last.was_cached
    /\ last.key.cls = "normal"

\* C10: an ensure_meta whose key is in the in-memory map or in the disk cache
\* submits no job, adds nothing to the in-flight set and fetches nothing; a
\* disk hit is loaded into the in-memory map.
C10_EnsureMetaResolved ==
    (last.op \in EnsureOps /\ ~last.raised /\ (last.was_mem \/ last.was_disk))
        => /\ last.meta_jobs_added = 0
           /\ last.inflight_added = {}
           /\ last.eff \cap {"submit_meta", "fetch", "rl_wait"} = {}
           /\ << last.card, last.sig >> \in DOMAIN meta_by_key
           /\ (~last.was_mem => meta_by_key[<< last.card, last.sig >>] = last.value)

\* an ensure_meta loaded its list from the disk cache
C10_Witness ==
    /\ last.op \in EnsureOps
    /\ last.was_disk
    /\ ~last.was_mem
    /\ events > 0
    /\ meta_by_key[<< last.card, last.sig >>] = last.value

-----------------------------------------------------------------------------
(* Properties of the rate limiter *)

\* C7: any two returns of wait() are at least min_interval apart, so the k-th
\* return is at least (k-1)*min_interval after the earliest of the k calls;
\* the first call made never sleeps.
C7_RateLimiterSpacing ==
    /\ \A i, j \in DOMAIN rl_returns :
         i < j => rl_returns[j].at - rl_returns[i].at >= MinInterval
    /\ \A k \in DOMAIN rl_returns :
         LET first == CHOOSE i \in 1..k :
                 \A j \in 1..k : rl_returns[i].called <= rl_returns[j].called
         IN  rl_returns[k].at - rl_returns[first].called >= (k - 1) * MinInterval
    /\ \A k \in DOMAIN rl_returns : rl_returns[k].seq = 1 => ~rl_returns[k].slept

\* three calls of two threads have returned, a later one after sleeping, and
\* the last of them from a thread that had to wait for the lock
C7_Witness ==
    /\ Len(rl_returns) = 3
    /\ {rl_returns[k].thread : k \in DOMAIN rl_returns} = {1, 2}
    /\ \E k \in DOMAIN rl_returns : rl_returns[k].slept
    /\ \E k \in DOMAIN rl_returns : rl_returns[k].seq # k

-----------------------------------------------------------------------------
(* Properties of the disk cache *)

MetaKeys == CacheCards \X CacheSigs
ImageKeys == CacheKinds \X CacheCards \X CacheSigs \X CacheIdxs

\* what a get of the metadata (of the image) under key k returns on `files'
GetMeta(files, k) == get_cached_meta(files, k[1], k[2])
GetImage(files, k) == get_cached_image_bytes(files, k[1], k[2], k[3], k[4])

-----------------------------------------------------------------------------
(* Properties of the batch download *)

\* the values of the progress signals of the running batch, in their order
IsProgress(e) == e.type = "progress"
Progress == [p \in DOMAIN SelectSeq(dl_log, IsProgress) |-> SelectSeq(dl_log, IsProgress)[p].i]

Types == {dl_log[p].type : p \in DOMAIN dl_log}

\* where the network failed in the running batch
Failures == {p \in DOMAIN dl_log : dl_log[p].type = "cut" \/ ~dl_log[p].ok}

\* C6: no network call is made for a destination file that exists; the
\* progress values are emitted in the order 1, 2, ..., and a batch that is
\* done without having been cancelled has emitted one for each of its items.
C6_DownloadResume ==
    /\ "get_existing" \notin Types
    /\ Progress = [p \in 1..Len(Progress) |-> p]
    /\ ("done" \in Types /\ ~_download_cancel) => Len(Progress) = Len(selections)

\* a batch is done, not cancelled: a file was fetched, another was skipped
\* because it existed, the third item had no URL, and progress went 1, 2, 3
C6_Witness ==
    /\ "done" \in Types
    /\ ~_download_cancel
    /\ {"get", "skip"} \subseteq Types
    /\ \E i \in DOMAIN selections : Url(selections[i]) = NoUrl
    /\ Progress = <<1, 2, 3>>

\* C9: a failed network call is followed by the error signal and by nothing
\* else: no network call, no progress, no done; the batch emits one error.
C9_DownloadFailure ==
    /\ \A p \in Failures :
         \/ p = Len(dl_log) /\ _download_executor # <<>>
         \/ p + 1 = Len(dl_log) /\ dl_log[p + 1].type = "error"
    /\ Cardinality({p \in DOMAIN dl_log : dl_log[p].type = "error"}) <= 1
    /\ "error" \in Types => "done" \notin Types

\* the first item of a batch was fetched, the request of the second failed,
\* and the error has been delivered
C9_Witness ==
    /\ \E p \in DOMAIN dl_log :
         /\ dl_log[p].type = "get" /\ ~dl_log[p].ok /\ dl_log[p].i = 2
         /\ \E q \in 1..(p - 1) : dl_log[q].type = "get" /\ dl_log[q].ok
    /\ "error" \in Types
    /\ dl_signals = <<>>
    /\ ~_downloading

-----------------------------------------------------------------------------
(* Properties of the error handling of the caches *)

\* C11: an ensure_meta whose key is neither in memory nor in flight and whose
\* cache file does not parse raises nothing, adds the key to the in-flight
\* set and submits a fetch, as it does when the file is absent.
C11_CorruptEntryIsMiss ==
    (last.op \in EnsureOps /\ ~last.was_mem /\ last.was_corrupt /\ ~last.was_inflight)
        => /\ ~last.raised
           /\ last.inflight_added = {<< last.card, last.sig >>}
           /\ last.meta_jobs_added = 1

\* a step in which job i of the pool went from stage pc to a failed write
WriteFailedIn(pool, pool_after, i, pc) ==
    /\ Len(pool_after) = Len(pool)
    /\ pool[i].pc = pc
    /\ pool_after[i].write_failed

-----------------------------------------------------------------------------
(* Properties of the pools *)

\* the unfinished jobs of a pool
Unfinished(pool, pcs) == {i \in DOMAIN pool : pool[i].pc \in pcs}

\* a step of the worker of job i: the job moved on, or ended and left the pool
WorkerStep(pool, pool_after, i, pcs) ==
    /\ pool[i].pc \in pcs
    /\ \/ /\ Len(pool_after) = Len(pool)
          /\ pool_after[i] # pool[i]
          /\ \A j \in DOMAIN pool \ {i} : pool_after[j] = pool[j]
       \/ pool_after = RemoveAt(pool, i)

\* a job makes a step only when fewer than max_workers unfinished jobs were
\* submitted before it
StepsWithin(pool, pool_after, pcs, max_workers) ==
    \A i \in DOMAIN pool :
        WorkerStep(pool, pool_after, i, pcs)
            => Cardinality({j \in Unfinished(pool, pcs) : j < i}) < max_workers

-----------------------------------------------------------------------------
(* Properties of the generation tokens *)

\* the handlers of the events that invalidate outstanding image work:
\* navigation, filter change, override toggle, and the delivery of a list,
\* which rebuilds the strip
InvalidatingOps == EnsureOps \cup {"on_meta_ready"}

\* C14: a handler of a context-invalidating event increases _big_token by at
\* most 1 and _thumb_token by at most 1.
C14_TokensBumpedOnce ==
    last.op \in InvalidatingOps
        => /\ last.thumb_bumps <= 1
           /\ last.big_bumps <= 1

-----------------------------------------------------------------------------
(* Properties of the image loads *)

\* the file an image job fetches for
ImageFile(job) == image_cache_path(job.kind, job.card, job.sig, job.idx)

\* the load jobs whose fetch has not finished
FetchingLoads ==
    {i \in DOMAIN _image_executor :
        _image_executor[i].fn = "load" /\ _image_executor[i].pc = "fetch"}

\* C15: for every image key (kind, card, sig, index) at most one fetch of a
\* load job is outstanding.
C15_ImageLoadDedup ==
    \A i, j \in FetchingLoads :
        ImageFile(_image_executor[i]) = ImageFile(_image_executor[j]) => i = j

-----------------------------------------------------------------------------
(* Properties of the writes of the pool jobs *)

\* the metadata jobs that are inside set_cached_meta
WritingMeta ==
    {i \in Running(_meta_executor, MetaRunning, META_WORKERS) :
        _meta_executor[i].pc = "write"}

\* C16: no two jobs are writing the same metadata cache file at the same
\* time.
C16_NoOverlappingWrites ==
    \A i, j \in WritingMeta :
        meta_cache_path(_meta_executor[i].card, _meta_executor[i].emit_sig)
            = meta_cache_path(_meta_executor[j].card, _meta_executor[j].emit_sig)
        => i = j

-----------------------------------------------------------------------------
(* Properties of the threads *)

\* a step of a job of a pool, made on a worker's thread
WorkerAction ==
    \/ \E i \in DOMAIN _meta_executor : MetaFetch(i) \/ MetaFallback(i) \/ MetaWrite(i)
    \/ \E j \in DOMAIN _preload_executor : PreloadRead(j) \/ PreloadPrefetch(j)
    \/ \E i \in DOMAIN _image_executor : ImageFetch(i)
    \/ \E k \in DOMAIN _download_executor :
         DlItem(k) \/ DlCopy(k) \/ DlGet(k) \/ DlWrite(k) \/ DlExcept(k)

\* C17: a step of a pool job leaves the in-memory metadata map, the in-flight
\* set, the override and auto-relaxed sets, the generation tokens and the
\* thumbnail list as they are.
C17_WorkersLeaveConsumerState ==
    [][ WorkerAction
          => UNCHANGED << meta_by_key, _fetching_meta, _all_prints_override,
                          _auto_relaxed_cards, _thumb_token, _big_token,
                          thumb_widgets >> ]_vars

\* jobs of the three pools have made steps: a fetched list was delivered, the
\* second card's images were prefetched into the cache, and the worker of an
\* image job was the last to act
C17_Witness ==
    /\ meta_by_key # <<>>
    /\ cache_images # WarmCard(Deck[1])
    /\ cache_meta # SecondCardMeta(PrintList(1))
    /\ last.op = "image_fetch"

\* the handlers that run on the consumer thread
ConsumerOps ==
    EnsureOps \cup {"on_meta_ready", "on_meta_error", "on_image_bytes_ready",
                    "on_image_error", "shift_printing", "on_thumb_clicked"}

\* C18: a handler on the consumer thread reads and writes no file and makes
\* no network call.
C18_ConsumerDoesNoIO ==
    last.op \in ConsumerOps
        => last.eff \cap {"disk_read", "disk_write", "net", "fetch"} = {}

-----------------------------------------------------------------------------
(* Properties of the prefetch *)

IsSignal(job) == job.pc \in {"ready", "error"}

\* the step of the worker of a prefetch job
PrefetchJobStep ==
    \E i \in DOMAIN _image_executor :
        _image_executor[i].fn = "prefetch" /\ ImageFetch(i)

\* C19: the call of prefetch_to_cache and the job it submits, whether its
\* fetch succeeds or fails, queue no bytes_ready and no error signal, and
\* leave the tokens, what is displayed and every other consumer state as
\* they are; the job changes nothing but the image cache.
C19_PrefetchFireAndForget ==
    [][ /\ (PrefetchJobStep \/ \E j \in DOMAIN _preload_executor : PreloadPrefetch(j))
          => /\ SelectSeq(_image_executor', IsSignal) = SelectSeq(_image_executor, IsSignal)
             /\ UNCHANGED << _thumb_token, _big_token, big_image, thumb_widgets,
                             _thumb_context, current_index, filters,
                             active_printing_index, meta_by_key, _fetching_meta,
                             _all_prints_override, _auto_relaxed_cards,
                             _meta_executor, cache_meta >>
        /\ PrefetchJobStep => UNCHANGED _preload_executor ]_vars

\* a prefetch job has failed and another has written its image: the cache
\* holds one image of the second card, no image job is left and none has
\* signalled
C19_Witness ==
    /\ last.op = "image_fetch"
    /\ last.card = Deck[2]
    /\ _preload_executor = <<>>
    /\ _image_executor = <<>>
    /\ Cardinality(DOMAIN cache_images) = 1

\* C20: no prefetch job is in the image pool, running or queued.
C20_PrefetchOutsideImagePool ==
    \A i \in DOMAIN _image_executor : _image_executor[i].fn # "prefetch"

-----------------------------------------------------------------------------
(* The metadata side under fair scheduling: a job of the metadata pool that
   can make a step makes it, and a queued signal is delivered.  Every fetch
   ends, with a list or with an exception. *)

MetaPoolStep ==
    \E i \in DOMAIN _meta_executor : MetaFetch(i) \/ MetaFallback(i) \/ MetaWrite(i)

MetaDelivery ==
    \E i \in DOMAIN _meta_executor : OnMetaReady(i) \/ OnMetaError(i)

\* nothing is cached: the first card's list is fetched at construction, and
\* the filtered fetch may answer one printing or five
InitFair ==
    InitWindow({PrintList(1), PrintList(AUTO_RELAX_BELOW)}, {"fetch"}, {DEFAULT_FILTERS},
               {EmptyFiles}, {WarmImages})

NextFair ==
    \/ \E f \in FilterConfigs : ApplyFilters(f)
    \/ ToggleAllPrints
    \/ MetaPoolStep
    \/ MetaDelivery

\* a meta_ready or error signal is queued: ENABLED <<MetaDelivery>>_vars
DeliveryQueued ==
    \E i \in DOMAIN _meta_executor : _meta_executor[i].pc \in {"ready", "error"}

\* the event loop delivers a queued signal: WF_vars(MetaDelivery), with its
\* enabling condition written out
FairDelivery == []<>(~DeliveryQueued) \/ []<><<MetaDelivery>>_vars

SpecFair == InitFair /\ [][NextFair]_vars /\ WF_vars(MetaPoolStep) /\ FairDelivery

\* the last step was an ensure_meta that returned at the in-flight test for
\* the key (card, sig)
Declined(card, sig) ==
    /\ last.op \in EnsureOps
    /\ last.card = card /\ last.sig = sig
    /\ ReachedInFlightTest
    /\ last.was_inflight

\* the key is in the in-memory map or in the disk cache, or has left the
\* in-flight set
Resolved(card, sig) ==
    \/ << card, sig >> \in DOMAIN meta_by_key
    \/ get_cached_meta(cache_meta, card, sig).found
    \/ << card, sig >> \notin _fetching_meta

\* C21: under fair scheduling, an ensure_meta that declines to fetch because
\* its key is in flight is followed by a state in which the key is in the
\* in-memory map or in the disk cache or has left the in-flight set; no key
\* stays in the in-flight set for ever with no job outstanding for it.
C21_EventualResolution ==
    /\ \A card \in Cards, sig \in Sigs : Declined(card, sig) ~> Resolved(card, sig)
    /\ \A card \in Cards, sig \in Sigs :
         ~<>[](<< card, sig >> \in _fetching_meta /\ Outstanding(<< card, sig >>) = {})

-----------------------------------------------------------------------------
(* Properties of the auto-relax fallback *)

\* the worker of a job went from job to job_after by deciding on the
\* fallback, with `override' the override set it read
RelaxDecision(job, job_after, override) ==
    /\ (job.pc = "fetch" /\ job_after.pc = "fallback")
         => /\ job.filters_copy # NO_FILTERS
            /\ Len(job_after.filtered) \in 1..(AUTO_RELAX_BELOW - 1)
            /\ job.card \notin override
    /\ (job.pc = "fetch" /\ job_after.pc = "write")
         => /\ \/ job.filters_copy = NO_FILTERS
               \/ Len(job_after.filtered) = 0
               \/ Len(job_after.filtered) >= AUTO_RELAX_BELOW
               \/ job.card \in override
            /\ job_after.prints = job_after.filtered
            /\ job_after.emit_sig = job.sig
            /\ ~job_after.auto_relaxed
    /\ (job.pc = "fallback" /\ job_after.pc = "write" /\ job_after.fallback = <<>>)
         => /\ job_after.prints = job.filtered
            /\ job_after.emit_sig = job.sig
            /\ ~job_after.auto_relaxed

\* C22: the unfiltered re-fetch is issued only by a job that fetched with a
\* filter and got 1 to 4 printings for a card that is not in the override
\* set; a job that got 0 or 5 and more printings, or fetched with no filter,
\* goes on to write its list under its own signature; a re-fetch that
\* answers an empty list leaves the filtered list, the signature of the
\* submission and auto_relaxed = FALSE.
C22_AutoRelaxTrigger ==
    /\ [](\A i \in DOMAIN _meta_executor :
            (_meta_executor[i].pc = "fallback" \/ _meta_executor[i].auto_relaxed)
              => /\ _meta_executor[i].filters_copy # NO_FILTERS
                 /\ Len(_meta_executor[i].filtered) \in 1..(AUTO_RELAX_BELOW - 1))
    /\ [][ Len(_meta_executor') = Len(_meta_executor)
             => \A i \in DOMAIN _meta_executor :
                  RelaxDecision(_meta_executor[i], _meta_executor'[i],
                                _all_prints_override) ]_vars

\* before any user event, the job of the first card got one printing under
\* the default filters, re-fetched without filters, got nothing, and has
\* emitted the one printing under the signature of its submission
C22_Witness ==
    /\ events = 0
    /\ \E i \in DOMAIN _meta_executor :
         /\ _meta_executor[i].pc = "ready"
         /\ Len(_meta_executor[i].prints) = 1
         /\ _meta_executor[i].emit_sig = _meta_executor[i].sig
         /\ ~_meta_executor[i].auto_relaxed

\* the meta_ready signal of job i of the metadata pool is delivered
MetaReadyDelivered(i) ==
    /\ _meta_executor[i].pc = "ready"
    /\ _meta_executor' = RemoveAt(_meta_executor, i)

\* the override set and the filters, before and after a step
Scope == [_all_prints_override |-> _all_prints_override, filters |-> filters]
ScopeAfter == [_all_prints_override |-> _all_prints_override', filters |-> filters']

\* C23: the delivery of an auto-relaxed result for a card leaves the project's
\* filters as they are, and leaves every other card in or out of the override
\* set and of the auto-relaxed set, with the effective signature it had.
C23_AutoRelaxPerItem ==
    [][ \A i \in DOMAIN _meta_executor :
          (MetaReadyDelivered(i) /\ _meta_executor[i].auto_relaxed)
            => /\ filters' = filters
               /\ \A c \in Cards \ {_meta_executor[i].card} :
                    /\ (c \in _all_prints_override') = (c \in _all_prints_override)
                    /\ (c \in _auto_relaxed_cards') = (c \in _auto_relaxed_cards)
                    /\ effective_sig_for_card(ScopeAfter, c)
                         = effective_sig_for_card(Scope, c) ]_vars

\* the auto-relaxed list of the first card was delivered while the second
\* card was the current one and the first was not in the override set
C23_Witness ==
    /\ last.op = "on_meta_ready"
    /\ "auto_relaxed" \in last.eff
    /\ last.card = Deck[1]
    /\ current_index = 1
    /\ _all_prints_override = {Deck[1]}
    /\ effective_sig_for_card(State, Deck[2]) = filters_signature(FULL_FILTERS)

-----------------------------------------------------------------------------
(* Properties of the delivery of metadata results *)

\* C24: the delivery of a meta_ready whose job was submitted under a
\* signature that is not the card's effective signature any more removes
\* the job's key from the in-flight set and changes nothing else of the
\* consumer's state: not the in-memory map, not the override and
\* auto-relaxed sets, not what is displayed.
C24_StaleMetaDiscarded ==
    [][ \A i \in DOMAIN _meta_executor :
          (/\ MetaReadyDelivered(i)
           /\ _meta_executor[i].sig
                # effective_sig_for_card(Scope, _meta_executor[i].card))
            => /\ _fetching_meta'
                    = _fetching_meta \ {<< _meta_executor[i].card, _meta_executor[i].sig >>}
               /\ UNCHANGED << meta_by_key, _all_prints_override, _auto_relaxed_cards,
                               big_image, thumb_widgets, _thumb_context, _thumb_token,
                               _big_token, current_index, filters,
                               active_printing_index >> ]_vars

-----------------------------------------------------------------------------
(* Properties of the token classes *)

\* C25: _big_token and _thumb_token are 0 when the window is constructed,
\* and no step decreases either of them: a step that changes a token gives
\* it a value greater than every value it had.
C25_TokensMonotonic ==
    /\ [](/\ Blank(0, DEFAULT_FILTERS, <<>>)._big_token = 0
          /\ Blank(0, DEFAULT_FILTERS, <<>>)._thumb_token = 0
          /\ _big_token >= 0
          /\ _thumb_token >= 0)
    /\ [][ /\ _big_token' >= _big_token
           /\ _thumb_token' >= _thumb_token ]_vars

\* both tokens were bumped by the construction and again by user events
C25_Witness ==
    /\ events = MaxEvents
    /\ _big_token > 2
    /\ _thumb_token > 2
    /\ last.big_bumps > 0
    /\ last.thumb_bumps > 0

\* the handler of the last step got as far as rendering the current card
\* with its list: it looked for the preview in the image cache
Rendered == last.was_mem /\ "disk_read" \in last.eff

\* C26: shift_printing and on_thumb_clicked, which change the active
\* printing of the current card only, raise _big_token and leave
\* _thumb_token and the tokens of the thumbnails as they are;
\* clear_thumbnails raises _thumb_token and leaves _big_token as it is.
C26_TokenClassesIndependent ==
    /\ (last.op \in {"shift_printing", "on_thumb_clicked"} /\ Rendered)
         => /\ last.big_bumps = 1
            /\ last.thumb_bumps = 0
            /\ \A w \in DOMAIN thumb_widgets : thumb_widgets[w].token = _thumb_token
    /\ clear_thumbnails(State)._thumb_token = _thumb_token + 1
    /\ clear_thumbnails(State)._big_token = _big_token

\* a thumbnail was clicked while the load of a thumbnail was outstanding,
\* whose token is still the token of the strip
C26_Witness ==
    /\ last.op = "on_thumb_clicked"
    /\ Rendered
    /\ last.big_bumps = 1
    /\ \E i \in DOMAIN _image_executor :
         /\ _image_executor[i].key.cls = "thumb"
         /\ _image_executor[i].key.tok = _thumb_token

\* the token of class cls, of the two tokens big and thumb
TokenOf(cls, big, thumb) == IF cls = "big" THEN big ELSE thumb

\* the jobs of pool_after that were submitted in the step from pool
Submitted(pool, pool_after) ==
    IF Len(pool) <= Len(pool_after) /\ SubSeq(pool_after, 1, Len(pool)) = pool
    THEN (Len(pool) + 1)..Len(pool_after)
    ELSE {}

\* C27: an image job carries a value its class token had when the job was
\* submitted: the jobs of a class carry tokens that do not decrease in the
\* order of submission and are at most the current token, a job submitted in
\* a step that bumps its class token carries a token greater than that of
\* every job submitted before the step, and the jobs that carry the current
\* token are the ones submitted last.
C27_TokenCausalOrder ==
    /\ [](\A j \in DOMAIN _image_executor :
            /\ _image_executor[j].key.tok <= ClassToken(_image_executor[j].key)
            /\ \A i \in 1..(j - 1) :
                 _image_executor[i].key.cls = _image_executor[j].key.cls
                   => /\ _image_executor[i].key.tok <= _image_executor[j].key.tok
                      /\ _image_executor[i].key.tok = ClassToken(_image_executor[i].key)
                           => _image_executor[j].key.tok = _image_executor[i].key.tok)
    /\ [][ \A j \in Submitted(_image_executor, _image_executor') :
             /\ _image_executor'[j].key.tok
                  >= TokenOf(_image_executor'[j].key.cls, _big_token, _thumb_token)
             /\ _image_executor'[j].key.tok
                  <= TokenOf(_image_executor'[j].key.cls, _big_token', _thumb_token')
             /\ TokenOf(_image_executor'[j].key.cls, _big_token', _thumb_token')
                  > TokenOf(_image_executor'[j].key.cls, _big_token, _thumb_token)
                  => \A i \in DOMAIN _image_executor :
                       _image_executor[i].key.cls = _image_executor'[j].key.cls
                         => _image_executor[i].key.tok < _image_executor'[j].key.tok ]_vars

\* two loads of the preview are outstanding, the second submitted after a
\* bump of _big_token: it carries the current token, the first a smaller one
C27_Witness ==
    \E i, j \in DOMAIN _image_executor :
        /\ i < j
        /\ _image_executor[i].key.cls = "big"
        /\ _image_executor[j].key.cls = "big"
        /\ _image_executor[i].key.tok < _image_executor[j].key.tok
        /\ _image_executor[j].key.tok = _big_token

-----------------------------------------------------------------------------
(* Properties of the cancellation of a batch *)

\* the entries of the log of the batch made since Cancel was pressed
SinceCancel == (Len(last.value) + 1)..Len(dl_log)

\* Cancel was pressed while the worker was inside the iteration of an item
InItemAtCancel == last.eff \cap {"copy", "get", "write"} # {}

\* the batch has ended: its job has left the pool
BatchEnded == _download_executor = <<>> /\ Types \cap {"done", "error"} # {}

\* C28 as stated: once the cancel flag is set no progress is emitted any
\* more and no network call is made for an item whose iteration had not
\* begun, and the batch ends with done and not with error.
C28_CancelStopsBatch ==
    _download_cancel
        => /\ \A p \in SinceCancel :
                /\ dl_log[p].type # "progress"
                /\ dl_log[p].type \in {"get", "skip", "cut"}
                     => InItemAtCancel /\ dl_log[p].i = last.key.idx
           /\ (BatchEnded /\ "raise" \notin last.eff)
                => "done" \in Types /\ "error" \notin Types

\* C28, amended: once the cancel flag is set, no network call is made and no
\* progress is emitted for an item whose iteration had not begun; the item
\* the worker was in runs on, and when none of its network calls fails its
\* copies are all written, its progress is emitted, and the batch ends with
\* done; the batch ends with error only after a failed network call.
C28_CancelBetweenItems ==
    _download_cancel
        => /\ \A p \in SinceCancel :
                dl_log[p].type \in {"get", "skip", "cut", "progress"}
                  => InItemAtCancel /\ dl_log[p].i = last.key.idx
           /\ "error" \in Types => Failures # {}
           /\ (BatchEnded /\ Failures = {})
                => /\ "done" \in Types
                   /\ InItemAtCancel
                        => /\ \E p \in SinceCancel :
                                dl_log[p].type = "progress" /\ dl_log[p].i = last.key.idx
                           /\ \A c \in 1..Qty(selections[last.key.idx].card) :
                                Dest(selections[last.key.idx], c) \in DOMAIN out_dir

\* Cancel was pressed while the first copy of the first item was fetched:
\* both copies were written, progress 1 and done were emitted, and nothing
\* was done for the other items
C28_Witness ==
    /\ _download_cancel
    /\ last.eff = {"get"}
    /\ last.key.idx = 1
    /\ BatchEnded
    /\ "done" \in Types
    /\ Progress = <<1>>
    /\ \E p \in SinceCancel : dl_log[p].type = "get"
    /\ {Dest(Batch[1], 1), Dest(Batch[1], 2)} \subseteq DOMAIN out_dir
    /\ Dest(Batch[2], 1) \notin DOMAIN out_dir

-----------------------------------------------------------------------------
(* Properties of the end of a batch *)

\* the terminal signals of the batch, by their place in its log
Terminals == {p \in DOMAIN dl_log : dl_log[p].type \in {"done", "error"}}

\* C29: a batch that was started emits one terminal signal, done or error,
\* when its job ends, and no other signal after it; under fair scheduling
\* of the worker every batch gets there.
C29_OneTerminalSignal ==
    /\ [](/\ Cardinality(Terminals) <= 1
          /\ \A p \in Terminals : p = Len(dl_log)
          /\ _download_executor # <<>> => Terminals = {}
          /\ (_downloading /\ _download_executor = <<>>) => Cardinality(Terminals) = 1
          /\ \A q \in DOMAIN dl_signals :
               dl_signals[q].type \in {"done", "error"} => q = Len(dl_signals))
    /\ (_download_executor # <<>>)
         ~> (_download_executor = <<>> /\ Cardinality(Terminals) = 1)

\* the second batch of the session has ended with error after the progress
\* of its first item, and the error has been delivered
C29_Witness ==
    /\ events = MaxEvents
    /\ _download_executor = <<>>
    /\ ~_downloading
    /\ Len(dl_log) > 1
    /\ dl_log[Len(dl_log)].type = "error"
    /\ Progress = <<1>>

-----------------------------------------------------------------------------
(* Properties of the end of a metadata job *)

\* the stages of a job whose signal is queued
MetaSignalled == {"ready", "error"}

\* the step from pool to pool_after, seen from job i: a job leaves the pool
\* only by the delivery of its signal, and a job whose signal is queued does
\* nothing more
OneSignal(pool, pool_after, i) ==
    /\ Len(pool_after) < Len(pool)
         => \E d \in DOMAIN pool :
              pool[d].pc \in MetaSignalled /\ pool_after = RemoveAt(pool, d)
    /\ (Len(pool_after) = Len(pool) /\ pool[i].pc \in MetaSignalled)
         => pool_after[i] = pool[i]
    /\ (Len(pool_after) = Len(pool) /\ pool_after[i].pc \in MetaSignalled)
         => pool_after[i].card = pool[i].card /\ pool_after[i].sig = pool[i].sig

\* C30: a job of the metadata pool ends by queueing one signal, meta_ready
\* or error, also when its filtered fetch or its unfiltered re-fetch (with
\* their waits on the rate limiter) raises; the error is delivered with the
\* card and the signature of the submission; under fair scheduling every
\* job's signal is delivered, so that the pool ends up empty.
C30_OneDeliveryPerJob ==
    /\ [](\A i \in DOMAIN _meta_executor :
            _meta_executor[i].pc \in MetaRunning \cup MetaSignalled)
    /\ [][ \A i \in DOMAIN _meta_executor :
             /\ OneSignal(_meta_executor, _meta_executor', i)
             /\ (_meta_executor[i].pc = "error"
                   /\ _meta_executor' = RemoveAt(_meta_executor, i))
                  => /\ last'.op = "on_meta_error"
                     /\ last'.card = _meta_executor[i].card
                     /\ last'.sig = _meta_executor[i].sig
                     /\ << last'.card, last'.sig >> \notin _fetching_meta' ]_vars
    /\ <>[](_meta_executor = <<>>)

\* the unfiltered re-fetch of a job that was submitted after a change of
\* the filters has raised, and the job's error signal is queued
C30_Witness ==
    \E i \in DOMAIN _meta_executor :
        /\ _meta_executor[i].pc = "error"
        /\ _meta_executor[i].filtered # <<>>
        /\ _meta_executor[i].sig = filters_signature(FULL_FILTERS)

-----------------------------------------------------------------------------
(* Properties of a failed metadata fetch *)

\* a step of the metadata pool or a delivery of one of its signals added a
\* job to the pool
SubmittedWithoutEvent ==
    \/ /\ last'.op \in {"on_meta_ready", "on_meta_error"}
       /\ last'.meta_jobs_added > 0
    \/ /\ last' = last
       /\ Len(_meta_executor') > Len(_meta_executor)

\* the step is an ensure_meta for the key whose error was delivered by the
\* step before
CalledAgain == last'.op \in EnsureOps /\ last'.was_failed /\ ~last'.raised

-----------------------------------------------------------------------------
(* Properties of the in-memory map of printing lists *)

\* C32: once the in-memory map holds a list for (card, sig), no step removes
\* that entry or replaces it with a different list.
C32_MemoryWriteOnce ==
    [][\A key \in DOMAIN meta_by_key :
          /\ key \in DOMAIN meta_by_key'
          /\ meta_by_key'[key] = meta_by_key[key]]_vars

-----------------------------------------------------------------------------
(* Properties of the downloading flag *)

\* the terminal signals that are queued for the consumer
QueuedTerminals == {n \in DOMAIN dl_signals : dl_signals[n].type \in {"done", "error"}}

\* a batch has been started and its terminal signal has not been handled
BatchActive == _download_executor # <<>> \/ QueuedTerminals # {}

\* the step is download_prompt submitting a batch
BatchSubmitted == Len(_download_executor') > Len(_download_executor)

\* the step is on_download_done or on_download_error
TerminalHandled ==
    /\ dl_signals # <<>>
    /\ Head(dl_signals).type \in {"done", "error"}
    /\ dl_signals' = Tail(dl_signals)

\* C33: at most one batch is active at a time: the pool never holds two
\* jobs, the downloading flag is set as long as a batch is active,
\* download_prompt submits a batch only when none is active, and the handler
\* of the done or the error signal leaves the flag false with no batch
\* active, so that download_prompt submits again.
C33_OneBatchAtATime ==
    /\ [](/\ Len(_download_executor) + Cardinality(QueuedTerminals) <= 1
          /\ BatchActive => _downloading)
    /\ [][BatchSubmitted => ~BatchActive /\ ~_downloading]_vars
    /\ [][TerminalHandled => ~_downloading' /\ ~BatchActive']_vars

\* a second batch was submitted after the first one's terminal signal was
\* handled
C33_Witness ==
    /\ events = 2
    /\ _downloading
    /\ Len(_download_executor) = 1
    /\ dl_log = <<>>

-----------------------------------------------------------------------------
(* Preloading: the second card's list in the metadata cache is missing, empty
   or longer than PRELOAD_NEXT_THUMBS; its thumbnails are in the image cache,
   its full-size images are not. *)

LongList == PrintList(PRELOAD_NEXT_THUMBS + 1)

WarmThumbs ==
    [p \in {image_cache_path("small", Deck[2], filters_signature(DEFAULT_FILTERS), idx) :
               idx \in 0..PRELOAD_NEXT_THUMBS} |-> GoodBytes]

InitPreload ==
    InitWindow({PrintList(1)}, {}, {DEFAULT_FILTERS},
               {EmptyFiles, SecondCardMeta(PrintList(0)), SecondCardMeta(LongList)},
               {WarmThumbs})

NextPreload ==
    \/ \E idx \in 0..(Len(Deck) - 1) : GotoIndex(idx)
    \/ \E j \in DOMAIN _preload_executor :
         \/ PreloadRead(j)
         \/ PreloadPrefetch(j)
    \/ \E i \in DOMAIN _image_executor : ImageFetch(i)

SpecPreload == InitPreload /\ [][NextPreload]_vars

\* a step of a worker of the preload pool
PreloadStep == \E j \in DOMAIN _preload_executor : PreloadRead(j) \/ PreloadPrefetch(j)

\* job j of the preload pool reads a cache that holds no printing for it
ReadsNothing(j) ==
    /\ j \in Running(_preload_executor, PreloadRunning, PRELOAD_WORKERS)
    /\ _preload_executor[j].pc = "read"
    /\ get_cached_meta(cache_meta, _preload_executor[j].card, _preload_executor[j].sig).value = <<>>

\* the step is a navigation to index idx
NavigatedTo(idx) == events' = events + 1 /\ last'.op = "goto_index" /\ current_index' = idx

\* C34: a navigation submits one preload job, for the card after the one it
\* went to, and none when it went to the last card; a step of a preload
\* worker leaves the metadata pool, the in-flight set and the in-memory map
\* alone; a worker that reads no printing from the disk cache ends without a
\* prefetch; the worker calls prefetch_to_cache for the indexes below
\* PRELOAD_NEXT_THUMBS as "small" and below PRELOAD_NEXT_BIG as "normal" only.
C34_PreloadBounded ==
    /\ [](/\ last.op = "prefetch_to_cache"
               => last.key.idx < (IF last.key.cls = "small" THEN PRELOAD_NEXT_THUMBS
                                                            ELSE PRELOAD_NEXT_BIG)
          /\ \A j \in DOMAIN _preload_executor :
               /\ _preload_executor[j].pc = "small"
                    => _preload_executor[j].i < PRELOAD_NEXT_THUMBS
               /\ _preload_executor[j].pc = "normal"
                    => _preload_executor[j].i < PRELOAD_NEXT_BIG)
    /\ [][PreloadStep => UNCHANGED << _meta_executor, _fetching_meta, meta_by_key, cache_meta >>]_vars
    /\ [][\A j \in DOMAIN _preload_executor :
            (ReadsNothing(j) /\ PreloadRead(j))
                => /\ _preload_executor' = RemoveAt(_preload_executor, j)
                   /\ UNCHANGED << _image_executor, cache_images, last >>]_vars
    /\ [][\A idx \in 0..(Len(Deck) - 1) :
            NavigatedTo(idx)
                => IF idx + 1 < Len(Deck)
                   THEN /\ Len(_preload_executor') = Len(_preload_executor) + 1
                        /\ _preload_executor'[Len(_preload_executor')] =
                               PreloadJob(Deck[idx + 2],
                                          effective_sig_for_card(State, Deck[idx + 2]))
                   ELSE _preload_executor' = _preload_executor]_vars

\* the preload worker of a list longer than PRELOAD_NEXT_THUMBS has left its
\* first loop after PRELOAD_NEXT_THUMBS calls
C34_Witness ==
    /\ last.op = "prefetch_to_cache"
    /\ last.key.cls = "small"
    /\ last.key.idx = PRELOAD_NEXT_THUMBS - 1
    /\ \E j \in DOMAIN _preload_executor :
         /\ Len(_preload_executor[j].prints) > PRELOAD_NEXT_THUMBS
         /\ _preload_executor[j].pc = "normal"

-----------------------------------------------------------------------------
(* Properties of the override sets *)

\* C35: every auto-relaxed card is in all-prints override.
C35_RelaxedInOverride == _auto_relaxed_cards \subseteq _all_prints_override

\* an override toggle has run while a card is auto-relaxed
C35_Witness ==
    /\ last.op = "toggle_all_prints_for_current"
    /\ _auto_relaxed_cards # {}
    /\ _auto_relaxed_cards # _all_prints_override

-----------------------------------------------------------------------------
(* Properties of the big preview *)

\* the step drew a preview
Drawn == big_image'.kind = "pixmap" /\ big_image' # big_image

\* C36: whenever a big-image result is drawn, it is the image of the active
\* printing of the card it was requested for, under that card's effective
\* signature, and that card is the current card, or the card that
\* select_and_next has just left.
C36_BigMatchesActive ==
    [][Drawn =>
         LET key == big_image'.key
         IN  /\ key.cls = "big"
             /\ key.idx = (IF key.card \in DOMAIN active_printing_index'
                           THEN active_printing_index'[key.card] ELSE 0)
             /\ key.sig = (IF key.card \in _all_prints_override'
                           THEN "ALL" ELSE filters_signature(filters'))
             /\ \/ key.card = Deck[current_index' + 1]
                \/ /\ last'.op = "select_current_printing"
                   /\ key.card = Deck[current_index + 1]]_vars

\* a fetched preview of the second printing was accepted and drawn while a
\* snapshot is on the undo stack
C36_Witness ==
    /\ last.op = "on_image_bytes_ready"
    /\ last.applied
    /\ big_image.kind = "pixmap"
    /\ big_image.key.cls = "big"
    /\ big_image.key.idx = 1
    /\ undo_stack # <<>>

-----------------------------------------------------------------------------
(* Properties of the thumbnail strip *)

\* the step built a strip
Built == thumb_widgets' # <<>> /\ _thumb_token' # _thumb_token

\* the strip after the step has one widget per printing of the list that
\* the in-memory map holds for the card under its effective signature, each
\* with the thumbnail URL of its printing
StripOf(card) ==
    LET sig == IF card \in _all_prints_override' THEN "ALL" ELSE filters_signature(filters')
        prints == IF << card, sig >> \in DOMAIN meta_by_key'
                  THEN meta_by_key'[<< card, sig >>] ELSE <<>>
    IN  /\ Len(thumb_widgets') = Len(prints)
        /\ \A n \in DOMAIN thumb_widgets' : thumb_widgets'[n].url = prints[n].image_small

\* the cards a step rendered: the current card, and the card that
\* select_and_next has just left
Rendering ==
    {Deck[current_index' + 1]}
        \cup (IF last'.op = "select_current_printing" THEN {Deck[current_index + 1]} ELSE {})

\* the step drew a thumbnail on the widget at position n
DrawnOn(n) ==
    /\ n \in DOMAIN thumb_widgets'
    /\ thumb_widgets'[n].text = "pixmap"
    /\ \/ n \notin DOMAIN thumb_widgets
       \/ thumb_widgets[n].shown # thumb_widgets'[n].shown
       \/ thumb_widgets[n].token # thumb_widgets'[n].token

\* C37: every widget of the strip carries the current _thumb_token and its
\* position; a strip that was built has one widget per printing of the
\* rendered card's list, with that printing's thumbnail URL; a thumbnail
\* result is drawn on the widget at the position of its index only, under the
\* token of that widget, on a strip of the list of the result's card and
\* signature.
C37_StripConsistent ==
    /\ [](\A n \in DOMAIN thumb_widgets :
             /\ thumb_widgets[n].token = _thumb_token
             /\ thumb_widgets[n].idx = n - 1)
    /\ [][Built => \E card \in Rendering : StripOf(card)]_vars
    /\ [][\A n \in DOMAIN thumb_widgets' :
            DrawnOn(n) =>
                LET key == thumb_widgets'[n].shown
                IN  /\ key.cls = "thumb"
                    /\ key.idx = n - 1
                    /\ key.tok = thumb_widgets'[n].token
                    /\ thumb_widgets'[n].loaded
                    /\ key.card \in Rendering
                    /\ key.sig = (IF key.card \in _all_prints_override'
                                  THEN "ALL" ELSE filters_signature(filters'))
                    /\ StripOf(key.card)]_vars

\* a fetched thumbnail was drawn on the second widget of a strip that was
\* built again after the window opened
C37_Witness ==
    /\ last.op = "on_image_bytes_ready"
    /\ last.applied
    /\ last.key.cls = "thumb"
    /\ Len(thumb_widgets) = 2
    /\ thumb_widgets[2].shown = last.key
    /\ thumb_widgets[2].loaded
    /\ last.key.tok = _thumb_token
    /\ _thumb_token > 2

-----------------------------------------------------------------------------
(* C38: undo *)

\* the state that a snapshot holds
Snapshot == [idx |-> current_index, sel |-> selections, active |-> active_printing_index]

\* the step is a select_current_printing or a clear_selection that changed
\* the selections, the active printings or the current card
Changing ==
    /\ events' # events
    /\ last'.op \in {"select_current_printing", "clear_selection"}
    /\ \/ selections' # selections
       \/ active_printing_index' # active_printing_index
       \/ current_index' # current_index

\* the step is an undo that found a snapshot
Undoing == events' # events /\ last'.op = "undo" /\ undo_stack # <<>>

\* the step is an undo that found no snapshot
UndoingNothing == events' # events /\ last'.op = "undo" /\ undo_stack = <<>>

\* the active printing of a card in the map `active'
ActiveOf(active, card) == IF card \in DOMAIN active THEN active[card] ELSE 0

\* the active printing of every card is the one of the map `active'
SameActive(active) ==
    \A card \in Cards : active_printing_idx(State', card) = ActiveOf(active, card)

\* the same, but for the card of the snapshot when the step found its list:
\* its active printing is the one of the map, clamped into the list
SameActiveClamped(snap) ==
    \A card \in Cards :
        LET prints == meta_get(State', card, effective_sig_for_card(State', card))
        IN  active_printing_idx(State', card) =
                (IF card = Deck[snap.idx + 1] /\ prints # <<>>
                 THEN Max(0, Min(ActiveOf(snap.active, card), Len(prints) - 1))
                 ELSE ActiveOf(snap.active, card))

\* C38, as claimed: an operation that changes the state leaves the state
\* before it on top of the undo stack, and an undo puts the selections, the
\* active printing of every card and the current card index of the top of the
\* stack back, so that an undo right after the operation restores the state
\* before it; an undo on an empty stack changes nothing; the stack never
\* holds more than UNDO_STACK_LIMIT snapshots.
C38_UndoRoundTrip ==
    /\ [](Len(undo_stack) <= UNDO_STACK_LIMIT)
    /\ [][Changing => undo_stack' # <<>> /\ undo_stack'[Len(undo_stack')] = Snapshot]_vars
    /\ [][Undoing =>
            /\ selections' = undo_stack[Len(undo_stack)].sel
            /\ current_index' = undo_stack[Len(undo_stack)].idx
            /\ SameActive(undo_stack[Len(undo_stack)].active)
            /\ undo_stack' = SubSeq(undo_stack, 1, Len(undo_stack) - 1)]_vars
    /\ [][UndoingNothing =>
            /\ undo_stack' = <<>>
            /\ Snapshot' = Snapshot
            /\ State' = State]_vars

\* C38, amended: the same, but the undo clamps the active printing of the
\* card it returns to into that card's list, when its goto_index finds the
\* list in memory or in the metadata cache.
C38_UndoRestores ==
    /\ [](Len(undo_stack) <= UNDO_STACK_LIMIT)
    /\ [][Changing => undo_stack' # <<>> /\ undo_stack'[Len(undo_stack')] = Snapshot]_vars
    /\ [][Undoing =>
            /\ selections' = undo_stack[Len(undo_stack)].sel
            /\ current_index' = undo_stack[Len(undo_stack)].idx
            /\ SameActiveClamped(undo_stack[Len(undo_stack)])
            /\ undo_stack' = SubSeq(undo_stack, 1, Len(undo_stack) - 1)]_vars
    /\ [][UndoingNothing =>
            /\ undo_stack' = <<>>
            /\ Snapshot' = Snapshot
            /\ State' = State]_vars

\* the stack was full when one more snapshot was pushed, and the last step
\* was an undo
C38_Witness ==
    /\ last.op = "undo"
    /\ events = MaxPicks
    /\ Len(undo_stack) = UNDO_STACK_LIMIT - 1

-----------------------------------------------------------------------------
(* C39: resuming a download *)

\* the step skipped the file `dest' as already existing
Skipped(dest) ==
    /\ dl_log' # dl_log
    /\ dl_log' # <<>>
    /\ dl_log'[Len(dl_log')].type = "skip"
    /\ dl_log'[Len(dl_log')].dest = dest

\* the last batch was not cancelled, ran to the end of its loop and reported
\* "Download finished"
Finished ==
    /\ _download_executor = <<>>
    /\ ~_download_cancel
    /\ dl_log # <<>>
    /\ dl_log[Len(dl_log)].type = "done"

\* C39: a batch skips a file as already existing only when the file holds
\* all the bytes of its URL, whatever the batches before it did; and when a
\* batch has finished, every file of the download folder holds all of them.
C39_ResumeComplete ==
    /\ [](Finished => \A dest \in DOMAIN out_dir : out_dir[dest].complete)
    /\ [][\A dest \in DOMAIN out_dir : Skipped(dest) => out_dir[dest].complete]_vars

====
